---- MODULE Spec2Model ----
(***************************************************************************)
(* Hybrid search engine of deepsearch_mvp: the result cache of             *)
(* faiss_optimizer.py (SearchCache) and the orchestrator of                *)
(* enterprise_search.py (EnterpriseSearchEngine).                          *)
(*                                                                         *)
(* Conventions.  A Python string is a sequence of one-character strings.   *)
(* An Optional value is a sequence of length 0 (None) or 1 (<<v>>).        *)
(* A Python dict whose iteration order matters is a sequence of            *)
(* [key, val] records in insertion order.  Scores are integers (a fixed    *)
(* unit of the float scores of the source).                                *)
(***************************************************************************)
EXTENDS Integers, Sequences, FiniteSets, TLC

(* ------------------------------ bounds -------------------------------- *)

\* SearchCache(max_size=...): capacity of the cache under test.
MaxSize == 2
\* SearchCache(ttl_seconds=...) and config['cache_ttl'], in clock ticks.
TTL == 1
\* The clock runs from 0 to MaxTime.
MaxTime == 1

None == <<>>
Some(v) == <<v>>

(* ------------------------------ strings ------------------------------- *)

S_empty == <<>>
S_fuze == <<"f", "u", "z", "e">>
S_Fuze_sp == <<"F", "u", "z", "e", " ">>
S_radar == <<"r", "a", "d", "a", "r">>
S_ve == <<"v", "e">>
S_test == <<"t", "e", "s", "t">>

\* str.lower() on the characters the model uses.
LowerChar(c) ==
    CASE c = "F" -> "f"
      [] c = "R" -> "r"
      [] c = "T" -> "t"
      [] c = "V" -> "v"
      [] OTHER -> c

Lower(s) == [i \in 1..Len(s) |-> LowerChar(s[i])]

IsSpace(c) == c \in {" ", "\t", "\n"}

RECURSIVE LStrip(_)
LStrip(s) ==
    IF s # <<>> /\ IsSpace(Head(s)) THEN LStrip(Tail(s)) ELSE s

RECURSIVE RStrip(_)
RStrip(s) ==
    IF s # <<>> /\ IsSpace(s[Len(s)]) THEN RStrip(SubSeq(s, 1, Len(s) - 1)) ELSE s

\* str.strip()
Strip(s) == RStrip(LStrip(s))

(* ------------------- ordered dict (insertion order) ------------------- *)

DictKeys(d) == {d[i].key : i \in 1..Len(d)}

DictGet(d, k) == d[CHOOSE i \in 1..Len(d) : d[i].key = k].val

\* d[k] = v: an existing key keeps its place, a new key goes last.
DictSet(d, k, v) ==
    IF k \in DictKeys(d)
    THEN [i \in 1..Len(d) |-> IF d[i].key = k THEN [key |-> k, val |-> v] ELSE d[i]]
    ELSE Append(d, [key |-> k, val |-> v])

\* del d[k]
DictDel(d, k) == SelectSeq(d, LAMBDA e : e.key # k)

\* min(d, key=d.get): the first key, in iteration order, of minimal value.
DictMinKey(d) ==
    LET i == CHOOSE j \in 1..Len(d) :
                 /\ \A m \in 1..Len(d) : d[j].val <= d[m].val
                 /\ \A m \in 1..(j - 1) : d[m].val > d[j].val
    IN  d[i].key

\* Functions with a finite domain: f[k] = v and del f[k].
MapSet(f, k, v) == [x \in (DOMAIN f) \cup {k} |-> IF x = k THEN v ELSE f[x]]

MapDel(f, k) == [x \in (DOMAIN f) \ {k} |-> f[x]]

EmptyMap == <<>>

(* ------------------------------- state -------------------------------- *)

VARIABLES
    now,            \* time.time() / datetime.now(), in ticks
    cache,          \* SearchCache.cache: key -> [data, timestamp]
    access_times,   \* SearchCache.access_times: ordered dict key -> time
    search_cache,   \* EnterpriseSearchEngine.search_cache: ordered dict
    ret,            \* what the last operation did and returned
    lastPut,        \* history: key -> [data, at] of the put that stored the key
    lastAccess,     \* history: stored key -> time of its latest put or successful get
    putRun,         \* history: the puts made since SearchCache was last empty
    elastPut,       \* history: engine cache key -> time of its latest store
    env,            \* the backends of the engine, fixed at construction
    search_analytics, \* EnterpriseSearchEngine.search_analytics
    prev,           \* history: the search call before the last one
    mergeIn,        \* inputs of one merge step: keyword list, vector list, top_k
    mergeOut,       \* None, or Some(the list the merge step returned)
    pc,             \* thread -> where its search_async call stands
    locals,         \* thread -> the local variables of its search_async call
    hung,           \* the branches whose task never completes
    tasks,          \* thread -> branch -> what its task returns or raises once run
    document_corpus,      \* ordered dict file_path -> the chunk ids read for it
    term_frequencies,     \* chunk_id -> (word -> count)
    document_frequencies, \* word -> count
    index,          \* FAISSOptimizer.index: None or Some(the index read)
    metadata,       \* FAISSOptimizer.metadata: None or Some(the list unpickled)
    model,          \* FAISSOptimizer.model: None or Some("model")
    last_load_time, \* FAISSOptimizer.last_load_time, in seconds
    disk,           \* the index file, the metadata file and the model source
    seconds,        \* time.time() in seconds; now is the same clock in ticks
    rate_limits,    \* the rows of table rate_limits, in rowid order
    utc_offset,     \* local time minus UTC, in seconds
    rate_log,       \* history: ip -> the limited calls made, [at, allowed]
    loaded_at,      \* history: None or Some(current_time of the last load that succeeded)
    concurrent_searches, \* EnterpriseSearchEngine.concurrent_searches
    search_lock,    \* the permits left in the semaphore search_lock
    max_concurrent, \* EnterpriseSearchEngine.max_concurrent
    query_cache,    \* SearchOptimizer.query_cache: ordered dict key -> entry
    max_cache_size, \* SearchOptimizer.max_cache_size
    chunker,        \* one call of chunk_text: its arguments, locals and position
    load_lock,      \* FAISSOptimizer.load_lock: None or Some(the thread holding it)
    workers,        \* thread -> its call of load_index_and_model or search_optimized
    load_ids,       \* history: the loads begun, and the load that stored each handle
    connection_pool, \* DatabaseOptimizer.connection_pool: a list of connections
    pool_size,      \* DatabaseOptimizer.pool_size
    connections,    \* every connection opened: closed or not, and its thread check
    holders         \* thread -> None or Some(the connection get_connection yielded)

cacheVars == <<cache, access_times, lastPut, lastAccess, putRun>>

engineCacheVars == <<search_cache, elastPut>>

searchVars == <<env, search_analytics, prev>>

mergeVars == <<mergeIn, mergeOut>>

\* The counter of the searches in flight and the semaphore around them.
counterVars == <<concurrent_searches, search_lock, max_concurrent>>

requestVars == <<pc, locals, hung, tasks, counterVars>>

\* The variables of the machines that follow the two caches, the engine and
\* the merge step.
keywordIndexVars == <<document_corpus, term_frequencies, document_frequencies>>

\* FAISSOptimizer beside its SearchCache
\* The handles of FAISSOptimizer and the time of their load.
handleVars == <<index, metadata, model, last_load_time, loaded_at>>

optimizerVars == <<handleVars, disk, seconds>>

\* The variables of the services beside the search engine.
\* SecurityManager.check_rate_limit
rateLimitVars == <<rate_limits, utc_offset, rate_log>>

\* SearchOptimizer: the cache of ranked results
queryCacheVars == <<query_cache, max_cache_size>>

\* The services beside FAISSOptimizer and the rate limiter.
\* The threads of FAISSOptimizer calls in progress and the lock of its loads.
reloadVars == <<load_lock, workers, load_ids>>

\* DatabaseOptimizer: the pool of connections and the callers holding one.
poolVars == <<connection_pool, pool_size, connections, holders>>

threadedVars == <<reloadVars, poolVars>>

otherVars == <<chunker, threadedVars>>

extraVars == <<queryCacheVars, otherVars>>

serviceVars == <<optimizerVars, rateLimitVars, extraVars>>

laterVars == <<requestVars, keywordIndexVars, serviceVars>>

\* The variables of the machines other than a search_async call in progress.
afterRequestVars == <<keywordIndexVars, serviceVars>>

\* The variables of the caches, the engine and the merge step.
baseVars == <<now, ret, cacheVars, engineCacheVars, searchVars, mergeVars>>

vars == <<now, cache, access_times, search_cache, ret, lastPut,
          lastAccess, putRun, elastPut, env, search_analytics, prev,
          mergeIn, mergeOut, pc, locals, hung, tasks,
          document_corpus, term_frequencies, document_frequencies,
          index, metadata, model, last_load_time, disk, seconds,
          rate_limits, utc_offset, rate_log, loaded_at,
          concurrent_searches, search_lock, max_concurrent,
          query_cache, max_cache_size, chunker,
          load_lock, workers, load_ids,
          connection_pool, pool_size, connections, holders>>

\* The clock read a second time inside one call: the same tick or the next.
ClockAfter(t) == {u \in t..(t + 1) : u <= MaxTime}

(* ------------------------ SearchCache (faiss_optimizer) --------------- *)

\* `filters or {}`: a filter map is a set of <<name, value>> pairs.
FiltersOrEmpty(f) == IF f = None THEN {} ELSE f[1]

\* A key that leaves topk out of the hashed data.
GenerateKeyNoTopk(query, topk, filters) ==
    <<Strip(Lower(query)), 0, FiltersOrEmpty(filters)>>

\* SearchCache._generate_key; the md5 of the JSON text is taken as injective.
GenerateKey(query, topk, filters) ==
    <<Strip(Lower(query)), topk, FiltersOrEmpty(filters)>>

\* A TTL test that still accepts an entry of age ttl_seconds.
FreshInclusive(timestamp, t) == t - timestamp <= TTL

\* A TTL test that drops an entry one second early.
FreshEarly(timestamp, t) == t - timestamp < TTL - 1

\* The TTL test of SearchCache.get: time.time() - timestamp < self.ttl_seconds
Fresh(timestamp, t) == t - timestamp < TTL

\* A capacity test with > in place of >=.
AtCapacityStrict(c) == Cardinality(DOMAIN c) > MaxSize

\* The capacity test of SearchCache.put: len(self.cache) >= self.max_size
AtCapacity(c) == Cardinality(DOMAIN c) >= MaxSize

\* The key of a most recently accessed entry.
LruKeyNewest(a) ==
    LET i == CHOOSE j \in 1..Len(a) : \A m \in 1..Len(a) : a[j].val >= a[m].val
    IN  a[i].key

\* The key SearchCache._evict_lru removes: min(access_times, key=access_times.get)
LruKey(a) == DictMinKey(a)

\* SearchCache._evict_lru on (cache, access_times): the new pair and the key
\* removed, if any.
EvictLru(c, a) ==
    IF a = <<>>
    THEN [cache |-> c, access_times |-> a, evicted |-> None]
    ELSE LET lru_key == LruKey(a)
         IN  [cache |-> MapDel(c, lru_key),
              access_times |-> DictDel(a, lru_key),
              evicted |-> Some(lru_key)]

\* History kept beside SearchCache, updated the same way by every operation:
\* putKey is None or Some(key) for a put of data at time t, accessKey the key
\* whose entry the operation used.  A key that leaves the cache is forgotten.
HistoryStep(putKey, data, t, accessKey, accessTime, isGet) ==
    LET gone == ((DOMAIN cache) \ (DOMAIN cache')) \ {putKey[i] : i \in 1..Len(putKey)}
        put == IF putKey = None THEN lastPut
               ELSE MapSet(lastPut, putKey[1], [data |-> data, at |-> t])
        acc == IF accessKey = None THEN lastAccess
               ELSE MapSet(lastAccess, accessKey[1], accessTime)
    IN
    /\ lastPut' = [k \in (DOMAIN put) \ gone |-> put[k]]
    /\ lastAccess' = [k \in (DOMAIN acc) \ gone |-> acc[k]]
    /\ putRun' =
         IF putKey = None
         THEN IF isGet \/ DOMAIN cache' = {}
              THEN [ok |-> FALSE, keys |-> <<>>, evictions |-> 0]
              ELSE putRun
         ELSE IF DOMAIN cache = {}
              THEN [ok |-> TRUE, keys |-> <<putKey[1]>>, evictions |-> 0]
              ELSE IF putRun.ok /\ putKey[1] \notin {putRun.keys[i] : i \in 1..Len(putRun.keys)}
                   THEN [ok |-> TRUE,
                         keys |-> Append(putRun.keys, putKey[1]),
                         evictions |-> putRun.evictions + Len(ret'.evicted)]
                   ELSE [ok |-> FALSE, keys |-> <<>>, evictions |-> 0]

NoKey == <<>>

\* SearchCache.get(query, topk, filters)
Get(query, topk, filters) ==
    LET key == GenerateKey(query, topk, filters)
        stored == IF key \in DOMAIN lastPut THEN Some(lastPut[key]) ELSE None
    IN
    \E t2 \in ClockAfter(now) :
        /\ IF key \in DOMAIN cache
           THEN IF Fresh(cache[key].timestamp, now)
                THEN /\ access_times' = DictSet(access_times, key, t2)
                     /\ cache' = cache
                     /\ now' = t2
                     /\ ret' = [op |-> "get", key |-> key, val |-> Some(cache[key].data),
                                evicted |-> None, at |-> now, stored |-> stored,
                                before |-> EmptyMap]
                     /\ HistoryStep(None, <<>>, now, Some(key), t2, TRUE)
                ELSE /\ cache' = MapDel(cache, key)
                     /\ access_times' = DictDel(access_times, key)
                     /\ now' = now
                     /\ ret' = [op |-> "get", key |-> key, val |-> None,
                                evicted |-> None, at |-> now, stored |-> stored,
                                before |-> EmptyMap]
                     /\ HistoryStep(None, <<>>, now, None, now, TRUE)
           ELSE /\ UNCHANGED <<cache, access_times, now>>
                /\ ret' = [op |-> "get", key |-> key, val |-> None,
                           evicted |-> None, at |-> now, stored |-> stored,
                           before |-> EmptyMap]
                /\ HistoryStep(None, <<>>, now, None, now, TRUE)
        /\ UNCHANGED <<engineCacheVars, searchVars, mergeVars, laterVars>>

\* SearchCache.put(query, topk, results, filters)
Put(query, topk, results, filters) ==
    LET key == GenerateKey(query, topk, filters)
        ev == IF AtCapacity(cache)
              THEN EvictLru(cache, access_times)
              ELSE [cache |-> cache, access_times |-> access_times, evicted |-> None]
    IN
    \E t2 \in ClockAfter(now) :
        /\ cache' = MapSet(ev.cache, key, [data |-> results, timestamp |-> now])
        /\ access_times' = DictSet(ev.access_times, key, t2)
        /\ now' = t2
        /\ ret' = [op |-> "put", key |-> key, val |-> None,
                   evicted |-> ev.evicted, at |-> now, stored |-> None,
                   before |-> lastAccess]
        /\ HistoryStep(Some(key), results, now, Some(key), t2, FALSE)
        /\ UNCHANGED <<engineCacheVars, searchVars, mergeVars, laterVars>>

\* SearchCache.clear()
Clear ==
    /\ cache' = EmptyMap
    /\ access_times' = <<>>
    /\ ret' = [op |-> "clear", key |-> NoKey, val |-> None, evicted |-> None,
               at |-> now, stored |-> None, before |-> EmptyMap]
    /\ HistoryStep(None, <<>>, now, None, now, FALSE)
    /\ UNCHANGED <<now, engineCacheVars, searchVars, mergeVars, laterVars>>

\* The clock advances between two calls.
Tick ==
    /\ now < MaxTime
    /\ now' = now + 1
    /\ UNCHANGED <<ret, cacheVars, engineCacheVars, searchVars, mergeVars, laterVars>>

\* A constraint map holds of a result when every key of the map is a field of
\* the result with the value asked for (FAISSOptimizer._match_filters).
MatchFilters(meta, filters) ==
    \A f \in filters : f[1] \in DOMAIN meta /\ meta[f[1]] = f[2]

(* ------------- result cache of EnterpriseSearchEngine ----------------- *)

\* config.get('cache_size', 1000)
CacheSizeCfg == 2

\* A key that leaves top_k out of the hashed data.
GetCacheKeyNoTopk(query, top_k, filters) == <<query, 0, FiltersOrEmpty(filters)>>

\* EnterpriseSearchEngine._get_cache_key: the query is not normalised.
GetCacheKey(query, top_k, filters) == <<query, top_k, FiltersOrEmpty(filters)>>

\* The TTL test of _get_cached_result:
\* datetime.now() - cached_data['timestamp'] < timedelta(seconds=cache_ttl)
EngineFresh(timestamp, t) == t - timestamp < TTL

\* EnterpriseSearchEngine._get_cached_result: None or Some(results).
GetCachedResult(sc, cache_key, t) ==
    IF cache_key \in DictKeys(sc) /\ EngineFresh(DictGet(sc, cache_key).timestamp, t)
    THEN Some(DictGet(sc, cache_key).results)
    ELSE None

\* min(self.search_cache.keys(), key=lambda k: self.search_cache[k]['timestamp'])
OldestKey(sc) ==
    LET i == CHOOSE j \in 1..Len(sc) :
                 /\ \A m \in 1..Len(sc) : sc[j].val.timestamp <= sc[m].val.timestamp
                 /\ \A m \in 1..(j - 1) : sc[m].val.timestamp > sc[j].val.timestamp
    IN  sc[i].key

\* A store that adds an entry without looking for the key.
CacheResultsAppend(sc, cache_key, results, t) ==
    Append(sc, [key |-> cache_key, val |-> [results |-> results, timestamp |-> t]])

\* EnterpriseSearchEngine._cache_results: the new search_cache.
CacheResults(sc, cache_key, results, t) ==
    LET kept == IF Len(sc) > CacheSizeCfg THEN DictDel(sc, OldestKey(sc)) ELSE sc
    IN  DictSet(kept, cache_key, [results |-> results, timestamp |-> t])

(* --------------------- EnterpriseSearchEngine ------------------------- *)

\* Characters re.sub(r'[^\w\s...]', ' ', text) replaces by a blank.
PunctChars == {".", ",", "-", "!", "?"}

RECURSIVE SplitFrom(_, _, _)
\* str.split(): the maximal runs of non-blank characters, in order.
SplitFrom(s, word, acc) ==
    IF s = <<>>
    THEN IF word = <<>> THEN acc ELSE Append(acc, word)
    ELSE IF IsSpace(Head(s))
         THEN SplitFrom(Tail(s), <<>>, IF word = <<>> THEN acc ELSE Append(acc, word))
         ELSE SplitFrom(Tail(s), Append(word, Head(s)), acc)

Split(s) == SplitFrom(s, <<>>, <<>>)

\* stop_words of _tokenize_advanced ("c-cedilla" stands for the letter of 'icin').
StopWords ==
    { <<"v", "e">>, <<"b", "i", "r">>, <<"b", "u">>, <<"d", "a">>, <<"d", "e">>,
      <<"i", "l", "e">>, <<"i", "c-cedilla", "i", "n">>, <<"o", "l", "a", "n">>,
      <<"o", "l", "a", "r", "a", "k">> }

\* EnterpriseSearchEngine._tokenize_advanced
TokenizeAdvanced(text) ==
    LET blanked == [i \in 1..Len(text) |->
                       IF text[i] \in PunctChars THEN " " ELSE text[i]]
        words == Split(Lower(blanked))
    IN  SelectSeq(words, LAMBDA w : Len(w) > 2 /\ w \notin StopWords)

\* self.document_corpus after _build_keyword_index: file_path -> chunk ids, in
\* the order of the chunks file.
DocumentCorpus ==
    << [key |-> "a.pdf", val |-> <<"c1", "c2">>],
       [key |-> "b.pdf", val |-> <<"c3">>] >>

\* self.metadata: the chunk of every vector of the FAISS index, by position.
Metadata ==
    << [file_path |-> "a.pdf", chunk_id |-> "c1"],
       [file_path |-> "a.pdf", chunk_id |-> "c2"],
       [file_path |-> "b.pdf", chunk_id |-> "c3"] >>

\* _calculate_advanced_score(query_words, chunk_text, file_path): a real-valued
\* function of the chunk and the query words, given by the table env.scores of
\* its values on the chunks of the corpus, in score units.
CalculateAdvancedScore(query_words, chunk_id, file_path) ==
    IF query_words = <<S_fuze>> THEN env.scores[chunk_id] ELSE 0

\* _filename_score(query, file_path) on the corpus above: the empty string is
\* in every file name, and no word of the other queries is in one.
FilenameScore(query, file_path) == IF Lower(query) = S_empty THEN 2 ELSE 0

\* Insert e after the entries of acc whose score is >= e.score:
\* list.sort(key=score, reverse=True) is stable.
RECURSIVE InsertByScore(_, _)
InsertByScore(acc, e) ==
    IF acc = <<>> THEN <<e>>
    ELSE IF Head(acc).score >= e.score
         THEN <<Head(acc)>> \o InsertByScore(Tail(acc), e)
         ELSE <<e>> \o acc

RECURSIVE SortByScoreFrom(_, _)
SortByScoreFrom(s, acc) ==
    IF s = <<>> THEN acc ELSE SortByScoreFrom(Tail(s), InsertByScore(acc, Head(s)))

\* sorted(..., key=score, reverse=True) and list.sort(key=score, reverse=True)
SortByScoreDesc(s) == SortByScoreFrom(s, <<>>)

\* s[:n] of Python for n >= 0
Prefix(s, n) == SubSeq(s, 1, IF n < Len(s) THEN n ELSE Len(s))

\* The best chunk of one file: the loop over chunks of _keyword_search_sync.
RECURSIVE BestChunk(_, _, _, _)
BestChunk(query_words, file_path, chunks, best) ==
    IF chunks = <<>> THEN best
    ELSE LET chunk_score == CalculateAdvancedScore(query_words, Head(chunks), file_path)
         IN  BestChunk(query_words, file_path, Tail(chunks),
                       IF chunk_score > best.score
                       THEN [score |-> chunk_score, chunk_id |-> Head(chunks)]
                       ELSE best)

\* A test that also keeps the files with no matching chunk.
FileMatchesAlways(file_score) == file_score >= 0

\* `if file_score > 0:` of _keyword_search_sync
FileMatches(file_score) == file_score > 0

\* EnterpriseSearchEngine._keyword_search_sync (the filters are not read).
KeywordSearchSync(query, top_k, filters) ==
    LET query_words == TokenizeAdvanced(Lower(query))
        scored == [i \in 1..Len(DocumentCorpus) |->
                      LET b == BestChunk(query_words, DocumentCorpus[i].key,
                                         DocumentCorpus[i].val,
                                         [score |-> 0, chunk_id |-> "none"])
                      IN  [file_path |-> DocumentCorpus[i].key,
                           score |-> b.score,
                           chunk_id |-> b.chunk_id,
                           search_type |-> "keyword",
                           relevance_factors |->
                               {<<"keyword_match", b.score>>,
                                <<"file_name_match",
                                  FilenameScore(query, DocumentCorpus[i].key)>>}]]
        document_scores == SelectSeq(scored, LAMBDA r : FileMatches(r.score))
    IN  IF query_words = <<>> THEN <<>>
        ELSE Prefix(SortByScoreDesc(document_scores), top_k)

\* The inner product of the query's embedding with vector idx (0-based) of the
\* index: the encoder is a black box, so a table, in similarity units.
Similarity(query, idx) ==
    IF query = S_fuze
    THEN CASE idx = 0 -> 1 [] idx = 1 -> 0 [] OTHER -> 1
    ELSE CASE idx = 0 -> 0 [] idx = 1 -> 1 [] OTHER -> 1

\* faiss.IndexFlatIP.search(query_embedding, n): the n best (score, idx) pairs,
\* best first; when the index holds fewer than n vectors the tail is idx -1.
FaissIndexSearch(query, n) ==
    LET hits == SortByScoreDesc([i \in 1..Len(Metadata) |->
                    [score |-> Similarity(query, i - 1), idx |-> i - 1]])
    IN  [i \in 1..n |-> IF i <= Len(hits) THEN hits[i]
                        ELSE [score |-> 0 - 1000, idx |-> 0 - 1]]

\* self.metadata[idx] of Python: a negative idx counts from the end.
MetadataAt(idx) == IF idx < 0 THEN Metadata[Len(Metadata) + idx + 1] ELSE Metadata[idx + 1]

\* EnterpriseSearchEngine._faiss_search_sync: an error of the encoder or of the
\* index is caught and gives [].
FaissSearchSync(query, top_k, filters) ==
    IF ~env.faissLoaded \/ env.encFails THEN <<>>
    ELSE LET found == FaissIndexSearch(query, top_k * 2)
             kept == SelectSeq(found, LAMBDA h : h.idx < Len(Metadata))
         IN  [i \in 1..Len(kept) |->
                 [file_path |-> MetadataAt(kept[i].idx).file_path,
                  score |-> kept[i].score,
                  chunk_id |-> MetadataAt(kept[i].idx).chunk_id,
                  search_type |-> "faiss",
                  relevance_factors |-> {<<"embedding_similarity", kept[i].score>>}]]

\* A boost by another multiplier.
BoostWrong(score) == score * 4

\* result.score * 5.0
Boost(score) == score * 5

\* One loop of _merge_search_results: append the results whose file_path was
\* not seen, boosted or not.
RECURSIVE MergeLoop(_, _, _)
MergeLoop(results, merged, boost) ==
    IF results = <<>> THEN merged
    ELSE LET result == Head(results)
             seen_files == {merged[i].file_path : i \in 1..Len(merged)}
         IN  IF result.file_path \notin seen_files
             THEN MergeLoop(Tail(results),
                            Append(merged,
                                   IF boost
                                   THEN [result EXCEPT !.score = Boost(result.score)]
                                   ELSE result),
                            boost)
             ELSE MergeLoop(Tail(results), merged, boost)

\* A merge that takes the vector results first.
MergeOrderVectorFirst(search_results) ==
    LET v == IF "faiss" \in DOMAIN search_results
             THEN MergeLoop(search_results["faiss"], <<>>, TRUE) ELSE <<>>
        m == IF "keyword" \in DOMAIN search_results
             THEN MergeLoop(search_results["keyword"], v, FALSE) ELSE v
    IN  SortByScoreDesc(m)

\* EnterpriseSearchEngine._merge_search_results; search_results maps the name of
\* a branch to its result list.
MergeSearchResults(search_results) ==
    LET k == IF "keyword" \in DOMAIN search_results
             THEN MergeLoop(search_results["keyword"], <<>>, FALSE) ELSE <<>>
        m == IF "faiss" \in DOMAIN search_results
             THEN MergeLoop(search_results["faiss"], k, TRUE) ELSE k
    IN  SortByScoreDesc(m)

\* The outcome of a call: a value returned or an exception raised.
Return(v) == [raised |-> FALSE, value |-> v]

Raise == [raised |-> TRUE, value |-> <<>>]

\* The branches _parallel_search starts: the FAISS task only with an index and
\* a model.
Dispatched == IF env.faissLoaded THEN {"keyword", "faiss"} ELSE {"keyword"}

\* The outcome of the task of one branch (_keyword_search_async,
\* _faiss_search_async).
TaskOutcome(branch, query, top_k, filters) ==
    IF branch = "keyword"
    THEN IF env.kwFails THEN Raise ELSE Return(KeywordSearchSync(query, top_k, filters))
    ELSE Return(FaissSearchSync(query, top_k, filters))

\* An await that lets the exception of the task through.
AwaitTaskNoCatch(outcome) == outcome

\* try: results = await task / except Exception: completed_results[...] = []
AwaitTask(outcome) == IF outcome.raised THEN Return(<<>>) ELSE outcome

\* completed_results of _parallel_search, as outcomes.
CompletedResults(query, top_k, filters) ==
    [b \in Dispatched |-> AwaitTask(TaskOutcome(b, query, top_k, filters))]

\* merged_results[:top_k], the value _parallel_search returns
Truncate(merged_results, top_k) == Prefix(merged_results, top_k)

\* EnterpriseSearchEngine._parallel_search
ParallelSearch(query, top_k, filters) ==
    LET completed == CompletedResults(query, top_k, filters) IN
    IF \E b \in DOMAIN completed : completed[b].raised
    THEN Raise
    ELSE Return(Truncate(MergeSearchResults([b \in DOMAIN completed |-> completed[b].value]),
                         top_k))

\* At most MaxCalls search calls are followed (the counters grow with each).
MaxCalls == 3

\* `if cached_result:` an empty list counts as no result.
Truthy(cached) == cached # None /\ cached[1] # <<>>

\* EnterpriseSearchEngine.search / search_async, as one call.
\* concurrent_searches is raised on entry and lowered on exit; search_times,
\* search_counts and error_counts are records for the operator and are left out.
Search(query, top_k, filters) ==
    LET cache_key == GetCacheKey(query, top_k, filters)
        cached_result == GetCachedResult(search_cache, cache_key, now)
        outcome == ParallelSearch(query, top_k, filters)
        call == [op |-> "search", args |-> <<query, top_k, filters>>,
                 key |-> cache_key, at |-> now]
    IN
    /\ search_analytics.cache_hits + search_analytics.total_searches < MaxCalls
    /\ IF Truthy(cached_result)
       THEN /\ search_analytics' = [search_analytics EXCEPT !.cache_hits = @ + 1]
            /\ ret' = call @@
                      [raised |-> FALSE, results |-> cached_result[1],
                       from_cache |-> TRUE, dispatched |-> {}]
            /\ UNCHANGED <<now, search_cache, elastPut>>
       ELSE IF outcome.raised
       THEN /\ ret' = call @@
                      [raised |-> TRUE, results |-> <<>>,
                       from_cache |-> FALSE, dispatched |-> Dispatched]
            /\ UNCHANGED <<now, search_cache, elastPut, search_analytics>>
       ELSE \E t2 \in ClockAfter(now) :
            /\ search_cache' = CacheResults(search_cache, cache_key, outcome.value, t2)
            /\ elastPut' = [k \in DictKeys(search_cache') |->
                               IF k = cache_key THEN t2 ELSE elastPut[k]]
            /\ now' = t2
            /\ search_analytics' = [search_analytics EXCEPT !.total_searches = @ + 1]
            /\ ret' = call @@
                      [raised |-> FALSE, results |-> outcome.value,
                       from_cache |-> FALSE, dispatched |-> Dispatched]
    /\ prev' = ret
    /\ UNCHANGED <<env, cacheVars, mergeVars, laterVars>>

\* _get_cached_result called on its own.
EngineGetCached(query, top_k, filters) ==
    LET cache_key == GetCacheKey(query, top_k, filters) IN
    /\ ret' = [op |-> "eget", key |-> cache_key, at |-> now,
               val |-> GetCachedResult(search_cache, cache_key, now),
               stored |-> IF cache_key \in DOMAIN elastPut
                          THEN Some(elastPut[cache_key]) ELSE None]
    /\ UNCHANGED <<now, cacheVars, engineCacheVars, searchVars, mergeVars, laterVars>>

\* _cache_results called on its own.
EngineCacheResults(query, top_k, filters, results) ==
    LET cache_key == GetCacheKey(query, top_k, filters) IN
    /\ search_cache' = CacheResults(search_cache, cache_key, results, now)
    /\ elastPut' = [k \in DictKeys(search_cache') |->
                       IF k = cache_key THEN now ELSE elastPut[k]]
    /\ ret' = [op |-> "eput", key |-> cache_key, at |-> now, val |-> None,
               stored |-> None]
    /\ UNCHANGED <<now, cacheVars, searchVars, mergeVars, laterVars>>

\* _merge_search_results and the truncation of _parallel_search on given branch
\* results.
MergeStep ==
    /\ mergeOut = None
    /\ LET merged == MergeSearchResults(
                          [b \in {"keyword", "faiss"} |->
                              IF b = "keyword" THEN mergeIn.keyword ELSE mergeIn.faiss])
       IN  mergeOut' = Some([merged |-> merged,
                             returned |-> Truncate(merged, mergeIn.top_k)])
    /\ UNCHANGED <<now, ret, mergeIn, cacheVars, engineCacheVars, searchVars, laterVars>>

(* ------------- search_async, step by step, in several threads --------- *)

\* The threads that call search at the same time, each with its own event loop.
Threads == {"t1", "t2"}

\* The tasks in the order _parallel_search creates and awaits them.
SearchTasks == IF env.faissLoaded THEN <<"keyword", "faiss">> ELSE <<"keyword">>

\* config.get('max_concurrent_searches', 100)
MaxConcurrentCfg == 2

\* `with self.search_lock:` takes a permit of the semaphore, and waits for one.
Enter(t) ==
    /\ pc[t] = "enter"
    /\ search_lock > 0
    /\ search_lock' = search_lock - 1
    /\ pc' = [pc EXCEPT ![t] = "inc_read"]
    /\ UNCHANGED <<now, ret, locals, hung, tasks, concurrent_searches, max_concurrent,
                   cacheVars, engineCacheVars, searchVars, mergeVars, afterRequestVars>>

\* `self.concurrent_searches += 1` and `-= 1` read the attribute and then
\* store it; no lock is held, so another thread can run in between.
CounterRead(t, at, next) ==
    /\ pc[t] = at
    /\ locals' = [locals EXCEPT ![t].counter_read = concurrent_searches]
    /\ pc' = [pc EXCEPT ![t] = next]
    /\ UNCHANGED <<now, ret, hung, tasks, counterVars,
                   cacheVars, engineCacheVars, searchVars, mergeVars, afterRequestVars>>

CounterWrite(t, at, delta, next) ==
    /\ pc[t] = at
    /\ concurrent_searches' = locals[t].counter_read + delta
    /\ pc' = [pc EXCEPT ![t] = next]
    /\ UNCHANGED <<now, ret, locals, hung, tasks, search_lock, max_concurrent,
                   cacheVars, engineCacheVars, searchVars, mergeVars, afterRequestVars>>

\* self.concurrent_searches += 1
IncRead(t) == CounterRead(t, "inc_read", "inc_write")

IncWrite(t) == CounterWrite(t, "inc_write", 1, "start")

\* finally: self.concurrent_searches -= 1
DecRead(t) == CounterRead(t, "dec_read", "dec_write")

DecWrite(t) == CounterWrite(t, "dec_write", 0 - 1, "release")

\* The end of the with block gives the permit back; search_async has left.
Release(t) ==
    /\ pc[t] = "release"
    /\ search_lock' = search_lock + 1
    /\ pc' = [pc EXCEPT ![t] = "done"]
    /\ UNCHANGED <<now, ret, locals, hung, tasks, concurrent_searches, max_concurrent,
                   cacheVars, engineCacheVars, searchVars, mergeVars, afterRequestVars>>

\* search_async up to the cache lookup: a truthy cached list is returned.
CacheCheck(t) ==
    LET a == locals[t].args
        cached_result == GetCachedResult(search_cache, GetCacheKey(a[1], a[2], a[3]), now)
    IN
    /\ pc[t] = "start"
    /\ IF Truthy(cached_result)
       THEN /\ search_analytics' = [search_analytics EXCEPT !.cache_hits = @ + 1]
            /\ locals' = [locals EXCEPT ![t].results = Some(cached_result[1]),
                                        ![t].from_cache = TRUE]
            /\ pc' = [pc EXCEPT ![t] = "dec_read"]
       ELSE /\ pc' = [pc EXCEPT ![t] = "dispatch"]
            /\ UNCHANGED <<search_analytics, locals>>
    /\ UNCHANGED <<now, ret, env, prev, hung, tasks, cacheVars, engineCacheVars, mergeVars,
                   afterRequestVars, counterVars>>

\* _parallel_search creates the tasks of the branches.
Dispatch(t) ==
    /\ pc[t] = "dispatch"
    /\ locals' = [locals EXCEPT ![t].search_tasks = SearchTasks]
    /\ pc' = [pc EXCEPT ![t] = "await"]
    /\ UNCHANGED <<now, ret, hung, tasks, cacheVars, engineCacheVars, searchVars, mergeVars,
                   afterRequestVars, counterVars>>

\* `results = await task` for the next task: it returns when the task has
\* completed, and a task that hangs never does.  What the task computes is a
\* function of the backends and of the arguments, held in tasks.
Await(t) ==
    LET search_type == Head(locals[t].search_tasks)
        outcome == AwaitTask(tasks[t][search_type])
    IN
    /\ pc[t] = "await"
    /\ locals[t].search_tasks # <<>>
    /\ search_type \notin hung
    /\ IF outcome.raised
       THEN /\ locals' = [locals EXCEPT ![t].raised = TRUE]
            /\ pc' = [pc EXCEPT ![t] = "dec_read"]
       ELSE /\ locals' = [locals EXCEPT
                             ![t].search_tasks = Tail(@),
                             ![t].completed_results =
                                 [b \in DOMAIN @ \cup {search_type} |->
                                     IF b = search_type THEN outcome.value ELSE @[b]]]
            /\ UNCHANGED pc
    /\ UNCHANGED <<now, ret, hung, tasks, cacheVars, engineCacheVars, searchVars, mergeVars,
                   afterRequestVars, counterVars>>

\* The rest of search_async once every task was awaited: merge, truncate,
\* _cache_results, the analytics and the return.
MergeAndStore(t) ==
    LET a == locals[t].args
        cache_key == GetCacheKey(a[1], a[2], a[3])
        results == Truncate(MergeSearchResults(locals[t].completed_results), a[2])
    IN
    /\ pc[t] = "await"
    /\ locals[t].search_tasks = <<>>
    /\ search_cache' = CacheResults(search_cache, cache_key, results, now)
    /\ elastPut' = [k \in DictKeys(search_cache') |->
                       IF k = cache_key THEN now ELSE elastPut[k]]
    /\ search_analytics' = [search_analytics EXCEPT !.total_searches = @ + 1]
    /\ locals' = [locals EXCEPT ![t].results = Some(results)]
    /\ pc' = [pc EXCEPT ![t] = "dec_read"]
    /\ UNCHANGED <<now, ret, env, prev, hung, tasks, cacheVars, mergeVars, afterRequestVars,
                   counterVars>>

\* A step of the search_async call of thread t.
ThreadStep(t) ==
    \/ Enter(t) \/ IncRead(t) \/ IncWrite(t)
    \/ CacheCheck(t) \/ Dispatch(t) \/ Await(t) \/ MergeAndStore(t)
    \/ DecRead(t) \/ DecWrite(t) \/ Release(t)

(* ----------------------- _build_keyword_index ------------------------- *)

\* Most lines of the chunks file that are followed.
MaxLines == 3

\* The number of times word occurs in words.
CountOf(words, word) == Cardinality({i \in 1..Len(words) : words[i] = word})

\* term_freq of one chunk: word -> number of occurrences.
TermFreq(words) ==
    [w \in {words[i] : i \in 1..Len(words)} |-> CountOf(words, w)]

\* for word in unique_words: document_frequencies[word] = get(word, 0) + 1
BumpFor(df, unique_words) ==
    [w \in (DOMAIN df) \cup unique_words |->
        IF w \in unique_words
        THEN (IF w \in DOMAIN df THEN df[w] ELSE 0) + 1
        ELSE df[w]]

\* The chunks read so far.
LinesRead ==
    LET RECURSIVE Total(_)
        Total(d) == IF d = <<>> THEN 0 ELSE Len(Head(d).val) + Total(Tail(d))
    IN  Total(document_corpus)

\* One well-formed line of the chunks file in _build_keyword_index; a line
\* that raises is logged and skipped before anything is stored.
ProcessChunk(chunk) ==
    LET chunk_id == chunk.chunk_id
        text == Lower(chunk.text)
        file_path == chunk.file_path
        words == TokenizeAdvanced(text)
        unique_words == {words[i] : i \in 1..Len(words)}
        chunks == IF file_path \in DictKeys(document_corpus)
                  THEN DictGet(document_corpus, file_path) ELSE <<>>
    IN
    /\ LinesRead < MaxLines
    /\ document_corpus' = DictSet(document_corpus, file_path, Append(chunks, chunk_id))
    /\ term_frequencies' = MapSet(term_frequencies, chunk_id, TermFreq(words))
    /\ document_frequencies' = BumpFor(document_frequencies, unique_words)
    /\ UNCHANGED <<baseVars, requestVars, serviceVars>>

(* --------------------------- FAISSOptimizer ---------------------------- *)

\* The largest number of vectors in an index build.
MaxVersion == 2

\* `(current_time - self.last_load_time) < 300`
ReloadInterval == 300

\* One tick of the clock of SearchCache in seconds: ttl_seconds = 3600 is TTL ticks.
SecondsPerTick == 3600

\* The most steps of ReloadInterval seconds followed inside one tick.
MaxShortSteps == 1

\* A file that reads well and holds n entries; a file that is missing or
\* cannot be read.
File(n) == [ok |-> TRUE, n |-> n]

BadFile(why) == [ok |-> FALSE, why |-> why]

\* The files of the build with n vectors, and a model that loads.
GoodDisk(n) == [index |-> File(n), meta |-> File(n), model_ok |-> TRUE]

\* What load_index_and_model can find: a build, a missing or unreadable index
\* file, a missing or unreadable metadata file, a model that does not load.
DiskStates ==
    {GoodDisk(n) : n \in 1..MaxVersion}
    \cup {[GoodDisk(MaxVersion) EXCEPT !.index = BadFile(x)] : x \in {"missing", "corrupt"}}
    \cup {[GoodDisk(MaxVersion) EXCEPT !.meta = BadFile(x)] : x \in {"missing", "corrupt"}}
    \cup {[GoodDisk(MaxVersion) EXCEPT !.model_ok = FALSE]}

\* The entry of the metadata list at idx: chunk idx of the file it was cut from.
MetaEntry(idx) ==
    [file_path |-> <<"a.pdf", "b.pdf", "c.pdf", "d.pdf">>[idx + 1], chunk_id |-> idx]

\* The snapshot a search reads.
Snapshot == [index |-> index, metadata |-> metadata, model |-> model]

\* A freshness test that no load passes.
RecentlyLoadedNever(llt, current_time) == current_time - llt < 0

\* (current_time - self.last_load_time) < 300
RecentlyLoaded(llt, current_time) == current_time - llt < ReloadInterval

\* load_index_and_model(force_reload) at current_time, on snapshot snap with
\* last load time llt: the snapshot and load time it leaves, whether it raised.
\* Each file is assigned as soon as it is read, so a failure keeps what the
\* steps before it stored; last_load_time is set after the last step only.
LoadIndexAndModel(snap, llt, force_reload, current_time) ==
    IF ~force_reload /\ RecentlyLoaded(llt, current_time)
       /\ snap.index # None /\ snap.model # None
    THEN [snap |-> snap, last_load_time |-> llt, raised |-> FALSE, loaded |-> FALSE]
    ELSE IF ~disk.index.ok
    THEN [snap |-> snap, last_load_time |-> llt, raised |-> TRUE, loaded |-> FALSE]
    ELSE IF ~disk.meta.ok
    THEN [snap |-> [snap EXCEPT !.index = Some(disk.index.n)],
          last_load_time |-> llt, raised |-> TRUE, loaded |-> FALSE]
    ELSE IF ~disk.model_ok
    THEN [snap |-> [snap EXCEPT !.index = Some(disk.index.n),
                                !.metadata = Some(disk.meta.n)],
          last_load_time |-> llt, raised |-> TRUE, loaded |-> FALSE]
    ELSE [snap |-> [index |-> Some(disk.index.n), metadata |-> Some(disk.meta.n),
                    model |-> Some("model")],
          last_load_time |-> current_time, raised |-> FALSE, loaded |-> TRUE]

\* self.index.search(query_embedding, topk)[1][0]: the topk nearest vectors,
\* padded with -1 when the index holds fewer.
IndexSearch(ntotal, topk) == [i \in 1..topk |-> IF i <= ntotal THEN i - 1 ELSE -1]

\* The loop of search_optimized over the indices found, on a loaded snapshot.
ProcessResults(snap, topk, filters) ==
    LET indices == IndexSearch(snap.index[1], topk)
        RECURSIVE Loop(_, _)
        Loop(i, results) ==
            IF i > Len(indices) THEN results
            ELSE LET idx == indices[i]
                 IN  IF idx # -1 /\ idx < snap.metadata[1]
                        /\ ~(FiltersOrEmpty(filters) # {}
                             /\ ~MatchFilters(MetaEntry(idx), FiltersOrEmpty(filters)))
                     THEN Loop(i + 1, Append(results,
                              [rank |-> i,
                               file_path |-> MetaEntry(idx).file_path,
                               chunk_id |-> MetaEntry(idx).chunk_id]))
                     ELSE Loop(i + 1, results)
    IN  Loop(1, <<>>)

\* The try block of search_optimized on snapshot snap: a part that was never
\* loaded raises inside the block, which returns [].
TrySearch(snap, topk, filters) ==
    IF snap.index = None \/ snap.metadata = None \/ snap.model = None
    THEN [results |-> <<>>, failed |-> TRUE]
    ELSE [results |-> ProcessResults(snap, topk, filters), failed |-> FALSE]

\* The clock in seconds once the clock in ticks reads t2.
SecondsAt(t2) == IF t2 > now THEN t2 * SecondsPerTick ELSE seconds

\* optimized_search(query, topk, filters): search_optimized, and [] for
\* whatever it raises.  search_optimized looks in the cache, calls
\* load_index_and_model outside its try block, searches and stores the results;
\* self.model.encode or self.index.search may raise inside the try block.
OptimizedSearch(query, topk, filters) ==
    LET key == GenerateKey(query, topk, filters)
        hit == key \in DOMAIN cache /\ Fresh(cache[key].timestamp, now)
        before == Snapshot
        ld == LoadIndexAndModel(before, last_load_time, FALSE, seconds)
        try == TrySearch(ld.snap, topk, filters)
        \* the cache after the lookup that missed
        c1 == MapDel(cache, key)
        a1 == IF key \in DictKeys(access_times) THEN DictDel(access_times, key)
              ELSE access_times
        ev == IF AtCapacity(c1) THEN EvictLru(c1, a1)
              ELSE [cache |-> c1, access_times |-> a1, evicted |-> None]
        call == [op |-> "optimized_search", args |-> <<query, topk, filters>>,
                 before |-> before, reload |-> "none", hit |-> FALSE,
                 results |-> <<>>, force |-> FALSE, at |-> seconds,
                 llt |-> last_load_time, loaded_before |-> loaded_at,
                 error |-> FALSE, expired |-> key \in DOMAIN cache /\ ~hit]
    IN
    \E t2 \in ClockAfter(now) :
        /\ now' = t2
        /\ seconds' = SecondsAt(t2)
        /\ disk' = disk
        /\ IF hit
           THEN /\ access_times' = DictSet(access_times, key, t2)
                /\ cache' = cache
                /\ UNCHANGED handleVars
                /\ ret' = [call EXCEPT !.hit = TRUE, !.results = cache[key].data]
           ELSE /\ index' = ld.snap.index
                /\ metadata' = ld.snap.metadata
                /\ model' = ld.snap.model
                /\ last_load_time' = ld.last_load_time
                /\ loaded_at' = IF ld.loaded THEN Some(seconds) ELSE loaded_at
                /\ \E encode_raises \in BOOLEAN :
                   IF ld.raised \/ try.failed \/ encode_raises
                   THEN /\ cache' = c1
                        /\ access_times' = a1
                        /\ ret' = [call EXCEPT
                                      !.error = TRUE,
                                      !.reload = IF ld.raised THEN "failed"
                                                 ELSE IF ld.loaded THEN "done" ELSE "none"]
                   ELSE /\ cache' = MapSet(ev.cache, key,
                                           [data |-> try.results, timestamp |-> now])
                        /\ access_times' = DictSet(ev.access_times, key, t2)
                        /\ ret' = [call EXCEPT
                                      !.reload = IF ld.loaded THEN "done" ELSE "none",
                                      !.results = try.results]
        /\ UNCHANGED <<lastPut, lastAccess, putRun, engineCacheVars, searchVars,
                       mergeVars, requestVars, keywordIndexVars, rateLimitVars, extraVars>>

\* load_index_and_model(force_reload) called on its own, as batch_search and
\* the performance report do.
LoadCall(force_reload) ==
    LET before == Snapshot
        ld == LoadIndexAndModel(before, last_load_time, force_reload, seconds)
    IN
    /\ index' = ld.snap.index
    /\ metadata' = ld.snap.metadata
    /\ model' = ld.snap.model
    /\ last_load_time' = ld.last_load_time
    /\ loaded_at' = IF ld.loaded THEN Some(seconds) ELSE loaded_at
    /\ ret' = [op |-> "load", before |-> before, force |-> force_reload,
               reload |-> IF ld.raised THEN "failed"
                          ELSE IF ld.loaded THEN "done" ELSE "none",
               at |-> seconds, llt |-> last_load_time, loaded_before |-> loaded_at]
    /\ UNCHANGED <<now, seconds, disk, cacheVars, engineCacheVars, searchVars, mergeVars,
                   requestVars, keywordIndexVars, rateLimitVars, extraVars>>

\* The index is rebuilt, or a file is removed or damaged, between two calls.
DiskChange(d) ==
    /\ d # disk
    /\ disk' = d
    /\ UNCHANGED <<handleVars, seconds, baseVars,
                   requestVars, keywordIndexVars, rateLimitVars, extraVars>>

\* Time passes between two calls: ReloadInterval seconds, or up to the next tick.
OptimizerTick ==
    \E s2 \in {seconds + ReloadInterval, (now + 1) * SecondsPerTick} :
        /\ s2 \div SecondsPerTick <= MaxTime
        /\ s2 % SecondsPerTick <= MaxShortSteps * ReloadInterval
        /\ seconds' = s2
        /\ now' = s2 \div SecondsPerTick
        /\ UNCHANGED <<handleVars, disk, ret, cacheVars,
                       engineCacheVars, searchVars, mergeVars, requestVars,
                       keywordIndexVars, rateLimitVars, extraVars>>

(* ------------- FAISSOptimizer called from several threads ------------- *)

\* The most loads followed in one run.
MaxLoads == 3

\* A thread that is in no call of FAISSOptimizer.
IdleWorker ==
    [pc |-> "idle", op |-> "none", args |-> <<>>, force |-> FALSE, current_time |-> 0,
     index_read |-> None, index_load |-> 0, meta_load |-> 0,
     results |-> <<>>, error |-> FALSE]

\* What the steps of a FAISSOptimizer call leave alone besides the handles,
\* the cache and the clock.
besideReload == <<ret, lastPut, lastAccess, putRun, engineCacheVars, searchVars,
                  mergeVars, requestVars, keywordIndexVars, rateLimitVars,
                  queryCacheVars, chunker, poolVars>>

\* Where a call stands once load_index_and_model has returned.
AfterLoad(w) == IF w.op = "search" THEN "search_index" ELSE "done"

\* load_index_and_model(force_reload) is called: current_time = time.time().
StartLoad(t, force_reload) ==
    /\ workers[t].pc \in {"idle", "done"}
    /\ workers' = [workers EXCEPT ![t] =
                      [IdleWorker EXCEPT !.pc = "check", !.op = "load",
                                         !.force = force_reload,
                                         !.current_time = seconds]]
    /\ UNCHANGED <<now, seconds, disk, handleVars, cache, access_times,
                   load_lock, load_ids, besideReload>>

\* search_optimized(query, topk, filters) is called: the cache lookup, and on a
\* miss the call of load_index_and_model() with its current_time.
StartSearch(t, query, topk, filters) ==
    LET key == GenerateKey(query, topk, filters)
        hit == key \in DOMAIN cache /\ Fresh(cache[key].timestamp, now)
        call == [IdleWorker EXCEPT !.op = "search", !.args = <<query, topk, filters>>,
                                   !.current_time = seconds]
    IN
    /\ workers[t].pc \in {"idle", "done"}
    /\ IF hit
       THEN /\ access_times' = DictSet(access_times, key, now)
            /\ cache' = cache
            /\ workers' = [workers EXCEPT ![t] =
                              [call EXCEPT !.pc = "done", !.results = cache[key].data]]
       ELSE /\ cache' = MapDel(cache, key)
            /\ access_times' = IF key \in DictKeys(access_times)
                               THEN DictDel(access_times, key) ELSE access_times
            /\ workers' = [workers EXCEPT ![t] = [call EXCEPT !.pc = "check"]]
    /\ UNCHANGED <<now, seconds, disk, handleVars, load_lock, load_ids, besideReload>>

\* The freshness test of load_index_and_model, made before the lock is taken.
FreshnessCheck(t) ==
    LET w == workers[t] IN
    /\ w.pc = "check"
    /\ workers' = [workers EXCEPT ![t].pc =
                      IF ~w.force /\ RecentlyLoaded(last_load_time, w.current_time)
                         /\ index # None /\ model # None
                      THEN AfterLoad(w) ELSE "lock"]
    /\ UNCHANGED <<now, seconds, disk, handleVars, cache, access_times,
                   load_lock, load_ids, besideReload>>

\* with self.load_lock: the thread enters once no other thread is inside.
AcquireLoadLock(t) ==
    /\ workers[t].pc = "lock"
    /\ load_lock = None
    /\ load_ids.count < MaxLoads
    /\ load_lock' = Some(t)
    /\ load_ids' = [load_ids EXCEPT !.count = @ + 1]
    /\ workers' = [workers EXCEPT ![t].pc = "load_index"]
    /\ UNCHANGED <<now, seconds, disk, handleVars, cache, access_times, besideReload>>

\* A step of the load raised: the lock is released and the call ends; a
\* search that called the load ends with [].
LoadRaised(t) ==
    /\ load_lock' = None
    /\ workers' = [workers EXCEPT ![t].pc = "done", ![t].error = TRUE]

\* self.index = faiss.read_index(self.index_path)
ReadIndex(t) ==
    /\ workers[t].pc = "load_index"
    /\ IF disk.index.ok
       THEN /\ index' = Some(disk.index.n)
            /\ load_ids' = [load_ids EXCEPT !.index = load_ids.count]
            /\ workers' = [workers EXCEPT ![t].pc = "load_metadata"]
            /\ load_lock' = load_lock
       ELSE /\ LoadRaised(t)
            /\ UNCHANGED <<index, load_ids>>
    /\ UNCHANGED <<metadata, model, last_load_time, loaded_at, now, seconds, disk,
                   cache, access_times, besideReload>>

\* self.metadata = pickle.load(f)
ReadMetadata(t) ==
    /\ workers[t].pc = "load_metadata"
    /\ IF disk.meta.ok
       THEN /\ metadata' = Some(disk.meta.n)
            /\ load_ids' = [load_ids EXCEPT !.metadata = load_ids.count]
            /\ workers' = [workers EXCEPT ![t].pc = "load_model"]
            /\ load_lock' = load_lock
       ELSE /\ LoadRaised(t)
            /\ UNCHANGED <<metadata, load_ids>>
    /\ UNCHANGED <<index, model, last_load_time, loaded_at, now, seconds, disk,
                   cache, access_times, besideReload>>

\* self.model = SentenceTransformer(...); self.last_load_time = current_time;
\* the lock is released.
LoadModel(t) ==
    LET w == workers[t] IN
    /\ w.pc = "load_model"
    /\ IF disk.model_ok
       THEN /\ model' = Some("model")
            /\ last_load_time' = w.current_time
            /\ loaded_at' = Some(w.current_time)
            /\ load_lock' = None
            /\ workers' = [workers EXCEPT ![t].pc = AfterLoad(w)]
       ELSE /\ LoadRaised(t)
            /\ UNCHANGED <<model, last_load_time, loaded_at>>
    /\ UNCHANGED <<index, metadata, load_ids, now, seconds, disk,
                   cache, access_times, besideReload>>

\* self.model.encode([query]) and self.index.search(query_embedding, topk), on
\* the handles the object holds at this moment.
SearchIndex(t) ==
    LET w == workers[t] IN
    /\ w.pc = "search_index"
    /\ workers' = [workers EXCEPT ![t] =
                      IF model = None \/ index = None
                      THEN [w EXCEPT !.pc = "done", !.error = TRUE]
                      ELSE [w EXCEPT !.pc = "process", !.index_read = index,
                                     !.index_load = load_ids.index]]
    /\ UNCHANGED <<now, seconds, disk, handleVars, cache, access_times,
                   load_lock, load_ids, besideReload>>

\* The loop over the indices found, which reads self.metadata, and
\* self.cache.put(query, topk, results, filters).
ProcessAndStore(t) ==
    LET w == workers[t]
        key == GenerateKey(w.args[1], w.args[2], w.args[3])
        results == ProcessResults([index |-> w.index_read, metadata |-> metadata],
                                  w.args[2], w.args[3])
        ev == IF AtCapacity(cache) THEN EvictLru(cache, access_times)
              ELSE [cache |-> cache, access_times |-> access_times, evicted |-> None]
    IN
    /\ w.pc = "process"
    /\ IF metadata = None
       THEN /\ workers' = [workers EXCEPT ![t].pc = "done", ![t].error = TRUE]
            /\ UNCHANGED <<cache, access_times>>
       ELSE /\ workers' = [workers EXCEPT ![t].pc = "done", ![t].results = results,
                                          ![t].meta_load = load_ids.metadata]
            /\ cache' = MapSet(ev.cache, key, [data |-> results, timestamp |-> now])
            /\ access_times' = DictSet(ev.access_times, key, now)
    /\ UNCHANGED <<now, seconds, disk, handleVars, load_lock, load_ids, besideReload>>

\* One step of the call of thread t.
WorkerStep(t) ==
    \/ FreshnessCheck(t)
    \/ AcquireLoadLock(t)
    \/ ReadIndex(t)
    \/ ReadMetadata(t)
    \/ LoadModel(t)
    \/ SearchIndex(t)
    \/ ProcessAndStore(t)

(* ------------------ DatabaseOptimizer: connection pool ---------------- *)

\* The largest pool_size followed.
MaxPoolSize == 2

\* The most connections opened in one run.
MaxConnections == 4

\* The threads that use the pool.
Callers == {"c1", "c2", "c3"}

\* sqlite3.connect(self.db_path, check_same_thread=False), as _initialize_pool
\* opens the connections of the pool.
PooledConnection == [closed |-> FALSE, check_same_thread |-> FALSE, thread |-> "main"]

\* sqlite3.connect(self.db_path) made by thread t: check_same_thread is True,
\* so only t may use or close the connection.
TemporaryConnection(t) == [closed |-> FALSE, check_same_thread |-> TRUE, thread |-> t]

\* DatabaseOptimizer(pool_size=n) after __init__: _initialize_pool has opened
\* n connections.
PoolNew(n) ==
    /\ pool_size = n
    /\ connections = [i \in 1..n |-> PooledConnection]
    /\ connection_pool = [i \in 1..n |-> i]
    /\ holders = [t \in Callers |-> None]

\* What the pool operations leave alone.
besidePool == <<baseVars, requestVars, keywordIndexVars, optimizerVars, rateLimitVars,
                queryCacheVars, chunker, reloadVars>>

\* conn.close() called by thread t raises ProgrammingError when the connection
\* checks its thread and another thread created it.
CloseRaises(conns, c, t) == conns[c].check_same_thread /\ conns[c].thread # t

\* get_connection up to its yield, under pool_lock: the last connection of the
\* pool, or a temporary connection when the pool is empty.
GetConnection(t) ==
    /\ holders[t] = None
    /\ IF connection_pool # <<>>
       THEN /\ holders' = [holders EXCEPT ![t] = Some(connection_pool[Len(connection_pool)])]
            /\ connection_pool' = SubSeq(connection_pool, 1, Len(connection_pool) - 1)
            /\ connections' = connections
       ELSE /\ Len(connections) < MaxConnections
            /\ connections' = Append(connections, TemporaryConnection(t))
            /\ holders' = [holders EXCEPT ![t] = Some(Len(connections) + 1)]
            /\ connection_pool' = connection_pool
    /\ UNCHANGED <<pool_size, besidePool>>

\* The finally block of get_connection, under pool_lock: the connection goes
\* back to the pool if the pool has room and is closed otherwise.
ReturnConnection(t) ==
    /\ holders[t] # None
    /\ LET conn == holders[t][1] IN
       IF Len(connection_pool) < pool_size
       THEN /\ connection_pool' = Append(connection_pool, conn)
            /\ connections' = connections
       ELSE /\ connection_pool' = connection_pool
            /\ connections' = IF CloseRaises(connections, conn, t) THEN connections
                              ELSE [connections EXCEPT ![conn].closed = TRUE]
    /\ holders' = [holders EXCEPT ![t] = None]
    /\ UNCHANGED <<pool_size, besidePool>>

\* The loop of close_pool from position i on: the connections as the loop
\* leaves them, and whether a close raised and ended it.
RECURSIVE CloseFrom(_, _, _)
CloseFrom(conns, i, t) ==
    IF i > Len(connection_pool) THEN [connections |-> conns, raised |-> FALSE]
    ELSE IF CloseRaises(conns, connection_pool[i], t)
    THEN [connections |-> conns, raised |-> TRUE]
    ELSE CloseFrom([conns EXCEPT ![connection_pool[i]].closed = TRUE], i + 1, t)

\* close_pool() called by thread t, under pool_lock: every connection of the
\* pool is closed, then the list is cleared; a close that raises ends the call
\* before the list is cleared.
ClosePool(t) ==
    LET done == CloseFrom(connections, 1, t) IN
    /\ connections' = done.connections
    /\ connection_pool' = IF done.raised THEN connection_pool ELSE <<>>
    /\ UNCHANGED <<holders, pool_size, besidePool>>

(* ----------------- SecurityManager.check_rate_limit ------------------- *)

\* security.rate_limits['test_endpoint'] = {'count': 3, ...}
TestCount == 3

\* The window of the limited endpoint, in seconds.
Window == 2

\* The most calls of check_rate_limit that are followed.
MaxRequests == 5

\* The last second at which a call is made.
MaxSeconds == 3

\* self.rate_limits: endpoint -> count and window
RateLimits == [test_endpoint |-> [count |-> TestCount, window |-> Window]]

IpAddresses == {"127.0.0.1", "10.0.0.2"}

Endpoints == {"test_endpoint", "health"}

\* SUM(request_count) over rows; no row gives NULL, read as 0.
SumCounts(rows) ==
    LET RECURSIVE Sum(_)
        Sum(r) == IF r = <<>> THEN 0 ELSE Head(r).request_count + Sum(Tail(r))
    IN  Sum(rows)

\* The calls of check_rate_limit made so far on a limited endpoint.
RequestsMade ==
    LET RECURSIVE Total(_)
        Total(ips) == IF ips = {} THEN 0
                      ELSE LET ip == CHOOSE x \in ips : TRUE
                           IN  Len(rate_log[ip]) + Total(ips \ {ip})
    IN  Total(IpAddresses)

\* check_rate_limit(endpoint, ip_address) on a database that answers;
\* in_request tells whether a Flask request context is active, which
\* log_security_event needs to read request.remote_addr.  The cutoff is local
\* time, window_start is CURRENT_TIMESTAMP in UTC.  The scalar subquery of the
\* INSERT yields the request_count of one of the rows it selects.
CheckRateLimit(endpoint, ip_address, in_request) ==
    IF endpoint \notin DOMAIN RateLimits
    THEN /\ ret' = [op |-> "check_rate_limit", endpoint |-> endpoint,
                    ip_address |-> ip_address, at |-> seconds,
                    allowed |-> TRUE, remaining |-> 999]
         /\ UNCHANGED <<rate_limits, rate_log>>
    ELSE
    LET max_requests == RateLimits[endpoint].count
        window_seconds == RateLimits[endpoint].window
        cutoff_time == (seconds + utc_offset) - window_seconds
        Mine(r) == r.ip_address = ip_address /\ r.endpoint = endpoint
        kept == SelectSeq(rate_limits, LAMBDA r : ~(Mine(r) /\ r.window_start < cutoff_time))
        counted == SelectSeq(kept, LAMBDA r : Mine(r) /\ r.window_start >= cutoff_time)
        current_requests == SumCounts(counted)
        Logged(allowed) ==
            rate_log' = [rate_log EXCEPT ![ip_address] =
                            Append(@, [at |-> seconds, allowed |-> allowed])]
        call == [op |-> "check_rate_limit", endpoint |-> endpoint,
                 ip_address |-> ip_address, at |-> seconds,
                 allowed |-> TRUE, remaining |-> 999]
    IN
    /\ RequestsMade < MaxRequests
    /\ IF current_requests >= max_requests
       THEN \* the connection is closed before a commit: the DELETE is undone
            /\ rate_limits' = rate_limits
            /\ IF in_request
               THEN /\ ret' = [call EXCEPT !.allowed = FALSE, !.remaining = 0]
                    /\ Logged(FALSE)
               ELSE \* log_security_event raises; `except` allows the call
                    /\ ret' = call
                    /\ Logged(TRUE)
       ELSE \E base \in IF counted = <<>> THEN {0}
                        ELSE {counted[i].request_count : i \in 1..Len(counted)} :
                /\ rate_limits' = Append(kept,
                       [ip_address |-> ip_address, endpoint |-> endpoint,
                        request_count |-> base + 1, window_start |-> seconds])
                /\ ret' = [call EXCEPT !.remaining = max_requests - current_requests - 1]
                /\ Logged(TRUE)

\* One call of check_rate_limit.
RateLimitCall(endpoint, ip_address, in_request) ==
    /\ CheckRateLimit(endpoint, ip_address, in_request)
    /\ UNCHANGED <<now, cacheVars, engineCacheVars, searchVars, mergeVars, requestVars,
                   keywordIndexVars, optimizerVars, utc_offset, extraVars>>

\* A second passes between two calls.
RateTick ==
    /\ seconds < MaxSeconds
    /\ seconds' = seconds + 1
    /\ UNCHANGED <<handleVars, disk, baseVars, requestVars,
                   keywordIndexVars, rateLimitVars, extraVars>>

(* ------------------- SearchOptimizer.query_cache ---------------------- *)

\* The largest max_cache_size followed.
MaxQueryCacheSize == 2

\* The largest access_count followed.
MaxAccessCount == 2

\* SearchOptimizer._generate_cache_key: f"{query.lower().strip()}|{filters_str}"
GenerateCacheKey(query, filters) == <<Strip(Lower(query)), FiltersOrEmpty(filters)>>

\* The first remove_count entries of sorted(items, key=access_count) leave the
\* dict qc; the sort is stable, so among equal counts the oldest key goes first.
RemoveLeastAccessed(qc, remove_count) ==
    LET RECURSIVE Remove(_, _)
        Remove(d, n) ==
            IF n = 0 \/ d = <<>> THEN d
            ELSE LET i == CHOOSE j \in 1..Len(d) :
                              /\ \A m \in 1..Len(d) :
                                     d[j].val.access_count <= d[m].val.access_count
                              /\ \A m \in 1..(j - 1) :
                                     d[m].val.access_count > d[j].val.access_count
                 IN  Remove(DictDel(d, d[i].key), n - 1)
    IN  Remove(qc, remove_count)

\* SearchOptimizer._clean_old_cache_entries on qc at current_time, for
\* max_cache_size = size
CleanOldCacheEntries(qc, size, current_time) ==
    LET kept == SelectSeq(qc, LAMBDA e : ~(current_time - e.val.timestamp > TTL))
    IN  IF Len(kept) >= size
        THEN RemoveLeastAccessed(kept, Len(kept) \div 5)
        ELSE kept

\* SearchOptimizer.cache_search_result(query, filters, results)
CacheSearchResult(query, filters, results) ==
    LET cache_key == GenerateCacheKey(query, filters)
        cleaned == IF Len(query_cache) >= max_cache_size
                   THEN CleanOldCacheEntries(query_cache, max_cache_size, now)
                   ELSE query_cache
    IN
    /\ query_cache' = DictSet(cleaned, cache_key,
                              [results |-> results, timestamp |-> now, access_count |-> 1])
    /\ ret' = [op |-> "cache_search_result", key |-> cache_key, val |-> None]
    /\ UNCHANGED <<now, max_cache_size, cacheVars, engineCacheVars, searchVars, mergeVars,
                   requestVars, keywordIndexVars, optimizerVars, rateLimitVars, otherVars>>

\* SearchOptimizer.get_cached_result(query, filters)
SearchOptimizerGetCachedResult(query, filters) ==
    LET cache_key == GenerateCacheKey(query, filters) IN
    /\ IF cache_key \in DictKeys(query_cache)
       THEN LET cached == DictGet(query_cache, cache_key) IN
            IF now - cached.timestamp < TTL
            THEN /\ cached.access_count < MaxAccessCount
                 /\ query_cache' = DictSet(query_cache, cache_key,
                                           [cached EXCEPT !.access_count = @ + 1])
                 /\ ret' = [op |-> "get_cached_result", key |-> cache_key,
                            val |-> Some(cached.results)]
            ELSE /\ query_cache' = DictDel(query_cache, cache_key)
                 /\ ret' = [op |-> "get_cached_result", key |-> cache_key, val |-> None]
       ELSE /\ query_cache' = query_cache
            /\ ret' = [op |-> "get_cached_result", key |-> cache_key, val |-> None]
    /\ UNCHANGED <<now, max_cache_size, cacheVars, engineCacheVars, searchVars, mergeVars,
                   requestVars, keywordIndexVars, optimizerVars, rateLimitVars, otherVars>>

(* ----------------------------- chunk_text ----------------------------- *)

\* The longest text, the largest chunk_size and the largest overlap followed.
MaxTextLen == 5

MaxChunkSize == 2

MaxOverlap == 2

\* tokens[start:end] of Python: a negative index counts from the end, and both
\* are clamped to the list.
PySlice(tokens, start, end) ==
    LET n == Len(tokens)
        Clamp(i) == IF i < 0 THEN (IF n + i < 0 THEN 0 ELSE n + i)
                    ELSE IF i > n THEN n ELSE i
        lo == Clamp(start)
        hi == Clamp(end)
    IN  IF lo >= hi THEN <<>> ELSE SubSeq(tokens, lo + 1, hi)

\* ' '.join(chunk_tokens)
RECURSIVE JoinTokens(_)
JoinTokens(chunk_tokens) ==
    IF chunk_tokens = <<>> THEN <<>>
    ELSE IF Len(chunk_tokens) = 1 THEN Head(chunk_tokens)
    ELSE Head(chunk_tokens) \o <<" ">> \o JoinTokens(Tail(chunk_tokens))

\* A call chunk_text(text, chunk_size, overlap) that has not run yet.
ChunkCall(text, chunk_size, overlap) ==
    [text |-> text, chunk_size |-> chunk_size, overlap |-> overlap, pc |-> "call",
     tokens |-> <<>>, start |-> 0, chunk_id |-> 0, chunks |-> <<>>, returned |-> None]

\* chunk_text up to the loop: the two early returns, or the locals of the loop.
ChunkTextBegin ==
    LET tokens == Split(chunker.text) IN
    /\ chunker.pc = "call"
    /\ chunker' =
         IF chunker.text = <<>>
         THEN [chunker EXCEPT !.pc = "done", !.returned = Some(<<>>)]
         ELSE IF Len(tokens) <= chunker.chunk_size
         THEN [chunker EXCEPT
                  !.pc = "done", !.tokens = tokens,
                  !.returned = Some(<<[text |-> chunker.text,
                                       meta |-> [tokens |-> Len(tokens)]]>>)]
         ELSE [chunker EXCEPT !.pc = "loop", !.tokens = tokens]
    /\ UNCHANGED <<baseVars, requestVars, keywordIndexVars, optimizerVars, rateLimitVars,
                   queryCacheVars, threadedVars>>

\* One pass of `while start < len(tokens)`; at most MaxTextLen + 1 passes are
\* followed.
ChunkTextLoop ==
    LET tokens == chunker.tokens
        step == chunker.chunk_size - chunker.overlap
        start == chunker.start
        end == IF start + chunker.chunk_size < Len(tokens)
               THEN start + chunker.chunk_size ELSE Len(tokens)
        chunk_tokens == PySlice(tokens, start, end)
        chunks == Append(chunker.chunks,
                         [text |-> JoinTokens(chunk_tokens),
                          meta |-> [chunk_id |-> chunker.chunk_id,
                                    start_token |-> start, end_token |-> end]])
    IN
    /\ chunker.pc = "loop"
    /\ Len(chunker.chunks) <= MaxTextLen
    /\ chunker' =
         IF ~(start < Len(tokens))
         THEN [chunker EXCEPT !.pc = "done", !.returned = Some(chunker.chunks)]
         ELSE IF end = Len(tokens)
         THEN [chunker EXCEPT !.pc = "done", !.chunks = chunks, !.chunk_id = @ + 1,
                              !.returned = Some(chunks)]
         ELSE [chunker EXCEPT !.chunks = chunks, !.chunk_id = @ + 1,
                              !.start = start + step]
    /\ UNCHANGED <<baseVars, requestVars, keywordIndexVars, optimizerVars, rateLimitVars,
                   queryCacheVars, threadedVars>>

(* ------------------------------ inputs -------------------------------- *)

\* Calls made on SearchCache: <<query, topk, filters>>.
CacheCalls ==
    { <<S_test, 5, None>>, <<<<"T", "e", "s", "t", " ">>, 5, Some({})>>,
      <<S_test, 3, None>>, <<S_radar, 5, None>>,
      <<S_test, 5, Some({<<"file_type", "pdf">>})>> }

\* Puts made on SearchCache: <<query, topk, results, filters>>.
CachePuts ==
    { <<S_test, 5, <<[rank |-> 1, chunk_id |-> "c1"]>>, None>>,
      <<S_test, 5, <<>>, None>>,
      <<S_test, 3, <<[rank |-> 1, chunk_id |-> "c2"]>>, None>>,
      <<S_radar, 5, <<[rank |-> 1, chunk_id |-> "c3"]>>, None>>,
      <<S_test, 5, <<[rank |-> 1, chunk_id |-> "c4"]>>,
        Some({<<"file_type", "pdf">>})>> }

\* Calls of EnterpriseSearchEngine.search: <<query, top_k, filters>>.
EngineCalls ==
    { <<S_fuze, 1, None>>, <<S_fuze, 2, None>>, <<S_fuze, 2, Some({})>>,
      <<S_Fuze_sp, 2, None>>, <<S_empty, 2, None>>, <<S_ve, 2, None>> }

\* Calls of EnterpriseSearchEngine.search with a filter map or a larger top_k.
EngineFilterCalls ==
    { <<S_fuze, 3, None>>,
      <<S_fuze, 2, Some({<<"file_path", "b.pdf">>})>>,
      <<S_fuze, 3, Some({<<"file_path", "b.pdf">>})>> }

\* Texts of chunks: 'Fuze radar', 'radar', 'fuze fuze ve'.
ChunkTexts ==
    { <<"F", "u", "z", "e", " ", "r", "a", "d", "a", "r">>,
      S_radar,
      <<"f", "u", "z", "e", " ", "f", "u", "z", "e", " ", "v", "e">> }

\* Lines of the chunks file: the chunker numbers the chunks of every file
\* from 0, so an id can come again.
ChunkLines ==
    [chunk_id : {0, 1}, text : ChunkTexts, file_path : {"a.pdf", "b.pdf"}]

\* The call the threads make at the same time.
RequestCalls == { <<S_fuze, 2, None>>, <<S_ve, 2, None>> }

\* The tasks of a call with the given arguments: _keyword_search_async and
\* _faiss_search_async run the branch in the executor.
TasksOf(args) ==
    [b \in {"keyword", "faiss"} |-> TaskOutcome(b, args[1], args[2], args[3])]

\* The locals of a search_async call that has not started.
NewCall(args) ==
    [args |-> args, search_tasks |-> <<>>, completed_results |-> <<>>,
     results |-> None, from_cache |-> FALSE, raised |-> FALSE, counter_read |-> 0]

\* The searches made beside the calls of load_index_and_model.
LoadSearchCalls == {<<S_fuze, 1, None>>}

\* The searches and the states of the files followed for failing searches.
ErrorSearchCalls == {<<S_fuze, 1, None>>, <<S_fuze, 2, None>>}

ErrorDisks == {GoodDisk(1), [GoodDisk(1) EXCEPT !.index = BadFile("missing")]}

\* The queries and result lists given to the cache of SearchOptimizer.
QueryCacheCalls == {<<S_fuze, None>>, <<S_radar, None>>, <<S_test, None>>}

QueryCacheResults == {<<>>, <<[file_path |-> "a.pdf"]>>}

\* The texts given to chunk_text: words of the letters a and b, and blanks.
Texts ==
    UNION {[1..n -> {"a", "b", " "}] : n \in 0..MaxTextLen}

\* Local time minus UTC on the servers that are followed.
UtcOffsets == {0 - Window, 0, Window}

\* The calls of optimized_search that are followed.
OptimizerCalls ==
    {<<S_fuze, 1, None>>, <<S_fuze, 2, None>>,
     <<S_fuze, 2, Some({<<"file_path", "b.pdf">>})>>}

\* Calls and result lists of the engine cache operations on their own.
EngineCacheCalls == { <<S_fuze, 1, None>> }

EngineResultLists ==
    { <<[file_path |-> "a.pdf", score |-> 5, chunk_id |-> "c1",
         search_type |-> "keyword",
         relevance_factors |-> {<<"keyword_match", 5>>, <<"file_name_match", 0>>}]>> }

Chunks == {"c1", "c2", "c3"}

\* Scores of keyword results and similarities of vector results given to a
\* merge step, in their units.
KeywordScoreValues == {2, 5}

SimilarityValues == {0, 1}

\* Tables of _calculate_advanced_score for the query words <<"fuze">>.
ScoreTables ==
    { [c \in Chunks |-> IF c = "c1" THEN 3 ELSE 5],
      [c \in Chunks |-> IF c = "c3" THEN 2 ELSE 0],
      [c \in Chunks |-> 0] }

\* The backends an engine can be constructed over.
Envs ==
    [kwFails : BOOLEAN, encFails : BOOLEAN, faissLoaded : BOOLEAN,
     scores : ScoreTables]

DefaultEnv ==
    [kwFails |-> FALSE, encFails |-> FALSE, faissLoaded |-> TRUE,
     scores |-> [c \in Chunks |-> 5]]

\* Longest branch result list given to a merge step.
MaxLen == 2

FilePaths == {"a.pdf", "b.pdf", "c.pdf"}

MergeTopKs == {1, 2, 4}

\* Result lists of a branch: entry i carries chunk id i, so that two entries
\* of a list are never the same entry.
BranchLists(tag, scoreSet) ==
    UNION { { [i \in 1..n |->
                 [file_path |-> f[i][1], score |-> f[i][2], chunk_id |-> i,
                  search_type |-> tag,
                  relevance_factors |->
                      IF tag = "keyword"
                      THEN {<<"keyword_match", f[i][2]>>, <<"file_name_match", 0>>}
                      ELSE {<<"embedding_similarity", f[i][2]>>}]]
              : f \in [1..n -> FilePaths \X scoreSet] }
            : n \in 0..MaxLen }

NoMerge == [keyword |-> <<>>, faiss |-> <<>>, top_k |-> 0]

(* --------------------------- specifications --------------------------- *)

NoCall == [op |-> "none"]

InitCommon ==
    /\ now = 0
    /\ cache = EmptyMap
    /\ access_times = <<>>
    /\ search_cache = <<>>
    /\ ret = NoCall
    /\ lastPut = EmptyMap
    /\ lastAccess = EmptyMap
    /\ putRun = [ok |-> FALSE, keys |-> <<>>, evictions |-> 0]
    /\ elastPut = EmptyMap
    /\ search_analytics = [cache_hits |-> 0, total_searches |-> 0]
    /\ prev = NoCall

\* No thread is inside search_async.
NoRequests ==
    /\ pc = [t \in Threads |-> "done"]
    /\ locals = [t \in Threads |-> NewCall(<<S_empty, 1, None>>)]
    /\ hung = {}
    /\ tasks = [t \in Threads |-> <<>>]
    /\ concurrent_searches = 0
    /\ max_concurrent = MaxConcurrentCfg
    /\ search_lock = MaxConcurrentCfg

\* The keyword index before any chunk was read (_initialize_keyword_search).
EmptyKeywordIndex ==
    /\ document_corpus = <<>>
    /\ term_frequencies = EmptyMap
    /\ document_frequencies = EmptyMap

\* FAISSOptimizer.__init__: nothing loaded, the files of one build on disk.
OptimizerNew ==
    /\ index = None
    /\ metadata = None
    /\ model = None
    /\ last_load_time = 0
    /\ loaded_at = None
    /\ disk = GoodDisk(1)
    /\ seconds = 0

\* initialize_security_tables on a new database: no row in rate_limits.
NoRateRows ==
    /\ rate_limits = <<>>
    /\ utc_offset = 0
    /\ rate_log = [ip \in IpAddresses |-> <<>>]

\* SearchOptimizer.__init__ with the largest max_cache_size followed.
QueryCacheNew ==
    /\ query_cache = <<>>
    /\ max_cache_size = MaxQueryCacheSize

\* No call of chunk_text is in progress.
NoChunking == chunker = ChunkCall(<<>>, 1, 0)

\* No thread is in a call of FAISSOptimizer and nothing was loaded.
NoWorkers ==
    /\ load_lock = None
    /\ workers = [t \in Threads |-> IdleWorker]
    /\ load_ids = [count |-> 0, index |-> 0, metadata |-> 0]

ThreadsIdle == NoWorkers /\ PoolNew(1)

ServicesIdle == OptimizerNew /\ NoRateRows /\ QueryCacheNew /\ NoChunking /\ ThreadsIdle

LaterIdle == NoRequests /\ EmptyKeywordIndex /\ ServicesIdle

\* The two result caches, each used through its own operations.
InitCache ==
    /\ InitCommon
    /\ LaterIdle
    /\ env = DefaultEnv
    /\ mergeIn = NoMerge
    /\ mergeOut = Some([merged |-> <<>>, returned |-> <<>>])

\* The two caches share no state.  A behaviour of SpecCache uses one of them, so
\* that the reachable states are the union of their state spaces, not the product.
SearchCacheUnused == cache = EmptyMap /\ ret.op \in {"none", "eget", "eput"}

EngineCacheUnused == search_cache = <<>> /\ ret.op \notin {"eget", "eput"}

NextCache ==
    \/ EngineCacheUnused /\ \E c \in CacheCalls : Get(c[1], c[2], c[3])
    \/ EngineCacheUnused /\ \E c \in CachePuts : Put(c[1], c[2], c[3], c[4])
    \/ EngineCacheUnused /\ Clear
    \/ Tick
    \/ SearchCacheUnused /\ \E c \in EngineCacheCalls : EngineGetCached(c[1], c[2], c[3])
    \/ SearchCacheUnused /\ \E c \in EngineCacheCalls, r \in EngineResultLists :
           EngineCacheResults(c[1], c[2], c[3], r)

SpecCache == InitCache /\ [][NextCache]_vars

\* The engine over fixed backends, searched again and again.
InitEngine ==
    /\ InitCommon
    /\ LaterIdle
    /\ env \in Envs
    /\ mergeIn = NoMerge
    /\ mergeOut = Some([merged |-> <<>>, returned |-> <<>>])

NextEngine ==
    \/ \E c \in EngineCalls : Search(c[1], c[2], c[3])
    \/ Tick

SpecEngine == InitEngine /\ [][NextEngine]_vars

\* The engine over fixed backends, searched with filter maps.
NextFiltered ==
    \/ \E c \in EngineFilterCalls : Search(c[1], c[2], c[3])
    \/ Tick

SpecFiltered == InitEngine /\ [][NextFiltered]_vars

\* No search is in flight on an engine that admits every thread at once.
AllAdmitted ==
    /\ concurrent_searches = 0
    /\ max_concurrent = Cardinality(Threads)
    /\ search_lock = max_concurrent

\* Threads that call search on an engine that admits max_concurrent of them.
InitCounter ==
    /\ InitCommon
    /\ env = DefaultEnv
    /\ mergeIn = NoMerge
    /\ mergeOut = Some([merged |-> <<>>, returned |-> <<>>])
    /\ pc = [t \in Threads |-> "enter"]
    /\ \E c \in RequestCalls :
           /\ locals = [t \in Threads |-> NewCall(c)]
           /\ tasks = [t \in Threads |-> TasksOf(c)]
    /\ hung = {}
    /\ concurrent_searches = 0
    /\ max_concurrent \in 1..MaxConcurrentCfg
    /\ search_lock = max_concurrent
    /\ EmptyKeywordIndex
    /\ ServicesIdle

\* Two threads call search with the same arguments on an engine with an empty
\* cache; every task completes.
InitConcurrent ==
    /\ InitCommon
    /\ env \in Envs
    /\ mergeIn = NoMerge
    /\ mergeOut = Some([merged |-> <<>>, returned |-> <<>>])
    /\ pc = [t \in Threads |-> "enter"]
    /\ AllAdmitted
    /\ \E c \in RequestCalls :
           /\ locals = [t \in Threads |-> NewCall(c)]
           /\ tasks = [t \in Threads |-> TasksOf(c)]
    /\ hung = {}
    /\ EmptyKeywordIndex
    /\ ServicesIdle

NextConcurrent ==
    \/ \E t \in Threads : ThreadStep(t)
    \/ Tick

SpecCounter == InitCounter /\ [][NextConcurrent]_vars

\* A thread inside search_async goes on running.
SpecConcurrent ==
    InitConcurrent /\ [][NextConcurrent]_vars /\ \A t \in Threads : WF_vars(ThreadStep(t))

\* The same calls on an engine where the task of at most one branch hangs.
InitHanging ==
    /\ InitCommon
    /\ env \in Envs
    /\ mergeIn = NoMerge
    /\ mergeOut = Some([merged |-> <<>>, returned |-> <<>>])
    /\ pc = [t \in Threads |-> "enter"]
    /\ AllAdmitted
    /\ \E c \in RequestCalls :
           /\ locals = [t \in Threads |-> NewCall(c)]
           /\ tasks = [t \in Threads |-> TasksOf(c)]
    /\ hung \in {{}, {"keyword"}, {"faiss"}}
    /\ EmptyKeywordIndex
    /\ ServicesIdle

SpecHanging ==
    InitHanging /\ [][NextConcurrent]_vars /\ \A t \in Threads : WF_vars(ThreadStep(t))

\* The keyword index built from the lines of a chunks file.
InitKeywordIndex ==
    /\ InitCommon
    /\ env = DefaultEnv
    /\ mergeIn = NoMerge
    /\ mergeOut = Some([merged |-> <<>>, returned |-> <<>>])
    /\ NoRequests
    /\ EmptyKeywordIndex
    /\ ServicesIdle

NextKeywordIndex == \E chunk \in ChunkLines : ProcessChunk(chunk)

SpecKeywordIndex == InitKeywordIndex /\ [][NextKeywordIndex]_vars

\* One FAISSOptimizer searched while the files on disk change and time passes.
InitOptimizer ==
    /\ InitCommon
    /\ env = DefaultEnv
    /\ mergeIn = NoMerge
    /\ mergeOut = Some([merged |-> <<>>, returned |-> <<>>])
    /\ NoRequests
    /\ EmptyKeywordIndex
    /\ ServicesIdle

NextOptimizer ==
    \/ \E c \in OptimizerCalls : OptimizedSearch(c[1], c[2], c[3])
    \/ \E d \in DiskStates : DiskChange(d)
    \/ OptimizerTick

SpecOptimizer == InitOptimizer /\ [][NextOptimizer]_vars

\* The handles loaded on demand, by load_index_and_model called on its own
\* and by the searches of one query.
NextLoad ==
    \/ \E force_reload \in BOOLEAN : LoadCall(force_reload)
    \/ \E c \in LoadSearchCalls : OptimizedSearch(c[1], c[2], c[3])
    \/ \E d \in DiskStates : DiskChange(d)
    \/ OptimizerTick

SpecLoad == InitOptimizer /\ [][NextLoad]_vars

\* Searches that may fail, in the encoder or because the index file is gone.
NextSearchErrors ==
    \/ \E c \in ErrorSearchCalls : OptimizedSearch(c[1], c[2], c[3])
    \/ \E d \in ErrorDisks : DiskChange(d)
    \/ OptimizerTick

SpecSearchErrors == InitOptimizer /\ [][NextSearchErrors]_vars

\* check_rate_limit called from two addresses while time passes, on a server
\* whose local time is UTC or off it by a window.
InitRateLimit ==
    /\ InitCommon
    /\ env = DefaultEnv
    /\ mergeIn = NoMerge
    /\ mergeOut = Some([merged |-> <<>>, returned |-> <<>>])
    /\ NoRequests
    /\ EmptyKeywordIndex
    /\ OptimizerNew
    /\ rate_limits = <<>>
    /\ utc_offset \in UtcOffsets
    /\ rate_log = [ip \in IpAddresses |-> <<>>]
    /\ QueryCacheNew
    /\ NoChunking
    /\ ThreadsIdle

NextRateLimit ==
    \/ \E endpoint \in Endpoints, ip_address \in IpAddresses, in_request \in BOOLEAN :
           RateLimitCall(endpoint, ip_address, in_request)
    \/ RateTick

SpecRateLimit == InitRateLimit /\ [][NextRateLimit]_vars

\* One SearchOptimizer with a max_cache_size between 1 and MaxQueryCacheSize.
InitQueryCache ==
    /\ InitCommon
    /\ env = DefaultEnv
    /\ mergeIn = NoMerge
    /\ mergeOut = Some([merged |-> <<>>, returned |-> <<>>])
    /\ NoRequests
    /\ EmptyKeywordIndex
    /\ OptimizerNew
    /\ NoRateRows
    /\ query_cache = <<>>
    /\ max_cache_size \in 1..MaxQueryCacheSize
    /\ NoChunking
    /\ ThreadsIdle

NextQueryCache ==
    \/ \E c \in QueryCacheCalls, results \in QueryCacheResults :
           CacheSearchResult(c[1], c[2], results)
    \/ \E c \in QueryCacheCalls : SearchOptimizerGetCachedResult(c[1], c[2])
    \/ Tick

SpecQueryCache == InitQueryCache /\ [][NextQueryCache]_vars

\* chunk_text called on every text, chunk_size >= 1 and overlap >= 0 followed.
InitChunker ==
    /\ InitCommon
    /\ env = DefaultEnv
    /\ mergeIn = NoMerge
    /\ mergeOut = Some([merged |-> <<>>, returned |-> <<>>])
    /\ NoRequests
    /\ EmptyKeywordIndex
    /\ OptimizerNew
    /\ NoRateRows
    /\ QueryCacheNew
    /\ ThreadsIdle
    /\ \E text \in Texts, chunk_size \in 1..MaxChunkSize, overlap \in 0..MaxOverlap :
           chunker = ChunkCall(text, chunk_size, overlap)

NextChunker == ChunkTextBegin \/ ChunkTextLoop

SpecChunker == InitChunker /\ [][NextChunker]_vars

\* Two threads call load_index_and_model and search_optimized of one
\* FAISSOptimizer while time passes.
NextReload ==
    \/ \E t \in Threads, force_reload \in BOOLEAN : StartLoad(t, force_reload)
    \/ \E t \in Threads, c \in LoadSearchCalls : StartSearch(t, c[1], c[2], c[3])
    \/ \E t \in Threads : WorkerStep(t)
    \/ OptimizerTick

SpecReload == InitOptimizer /\ [][NextReload]_vars

\* Three threads take and return connections of one DatabaseOptimizer, and
\* call close_pool.
InitPool ==
    /\ InitCommon
    /\ env = DefaultEnv
    /\ mergeIn = NoMerge
    /\ mergeOut = Some([merged |-> <<>>, returned |-> <<>>])
    /\ NoRequests
    /\ EmptyKeywordIndex
    /\ OptimizerNew
    /\ NoRateRows
    /\ QueryCacheNew
    /\ NoChunking
    /\ NoWorkers
    /\ \E n \in 1..MaxPoolSize : PoolNew(n)

NextPool ==
    \E t \in Callers :
        \/ GetConnection(t)
        \/ ReturnConnection(t)
        \/ ClosePool(t)

SpecPool == InitPool /\ [][NextPool]_vars

\* The merge step on every pair of branch result lists.
InitMerge ==
    /\ InitCommon
    /\ LaterIdle
    /\ env = DefaultEnv
    /\ mergeIn \in [keyword : BranchLists("keyword", KeywordScoreValues),
                    faiss : BranchLists("faiss", SimilarityValues),
                    top_k : MergeTopKs]
    /\ mergeOut = None

NextMerge == MergeStep

SpecMerge == InitMerge /\ [][NextMerge]_vars

(* ------------------------------ claims -------------------------------- *)

PathsOf(list) == {list[i].file_path : i \in 1..Len(list)}

\* The first entry of list for file path p.
FirstFor(list, p) ==
    list[CHOOSE i \in 1..Len(list) :
             /\ list[i].file_path = p
             /\ \A j \in 1..(i - 1) : list[j].file_path # p]

\* C1: _merge_search_results returns exactly one entry per distinct file_path of
\* the keyword list K or the vector list V: for a path of K the first keyword
\* entry of that path, unchanged, and for a path of V only the first vector
\* entry of that path with its score equal to 5 times its similarity.
C1_MergeOneEntryPerPath ==
    mergeOut # None /\ mergeIn # NoMerge =>
        LET m == mergeOut[1].merged
            K == mergeIn.keyword
            V == mergeIn.faiss
        IN  /\ PathsOf(m) = PathsOf(K) \cup PathsOf(V)
            /\ Len(m) = Cardinality(PathsOf(K) \cup PathsOf(V))
            /\ \A p \in PathsOf(K) : FirstFor(m, p) = FirstFor(K, p)
            /\ \A p \in PathsOf(V) \ PathsOf(K) :
                   FirstFor(m, p) = [FirstFor(V, p) EXCEPT !.score = 5 * FirstFor(V, p).score]

\* A merge of a keyword list that repeats a path and shares a path with the
\* vector list, which also brings a path of its own.
C1_Witness ==
    /\ mergeOut # None
    /\ Len(mergeIn.keyword) = 2
    /\ Cardinality(PathsOf(mergeIn.keyword)) = 1
    /\ PathsOf(mergeIn.keyword) \cap PathsOf(mergeIn.faiss) # {}
    /\ PathsOf(mergeIn.faiss) \ PathsOf(mergeIn.keyword) # {}
    /\ \E i \in 1..Len(mergeOut[1].merged) :
           /\ mergeOut[1].merged[i].search_type = "faiss"
           /\ mergeOut[1].merged[i].score = 5

\* C2: the list the merge step returns is sorted by fused score in
\* non-increasing order and truncated to top_k; among entries of equal score
\* every keyword entry precedes every vector entry and entries of one branch
\* keep their input order, so the order is fixed by the inputs.
C2_SortedTruncatedKeywordFirst ==
    mergeOut # None /\ mergeIn # NoMerge =>
        LET m == mergeOut[1].merged
            r == mergeOut[1].returned
        IN  /\ Len(r) = IF mergeIn.top_k < Len(m) THEN mergeIn.top_k ELSE Len(m)
            /\ \A i \in 1..Len(r) : r[i] = m[i]
            /\ \A i, j \in 1..Len(m) :
                   i < j =>
                       /\ m[i].score >= m[j].score
                       /\ m[i].score = m[j].score =>
                              /\ ~(m[i].search_type = "faiss" /\ m[j].search_type = "keyword")
                              /\ m[i].search_type = m[j].search_type =>
                                     m[i].chunk_id < m[j].chunk_id

\* A truncated result with a keyword entry and a vector entry of equal score,
\* and two vector entries of equal score.
C2_Witness ==
    /\ mergeOut # None
    /\ mergeIn # NoMerge
    /\ Len(mergeOut[1].returned) < Len(mergeOut[1].merged)
    /\ \E i, j \in 1..Len(mergeOut[1].merged) :
           /\ i < j
           /\ mergeOut[1].merged[i].score = mergeOut[1].merged[j].score
           /\ mergeOut[1].merged[i].search_type = "keyword"
           /\ mergeOut[1].merged[j].search_type = "faiss"
    /\ \E i, j \in 1..Len(mergeOut[1].merged) :
           /\ i < j
           /\ mergeOut[1].merged[i].score = mergeOut[1].merged[j].score
           /\ mergeOut[1].merged[i].search_type = "faiss"
           /\ mergeOut[1].merged[j].search_type = "faiss"

\* C3: with the indexes and the encoder fixed, two successive calls
\* search(q, k, f) with the same arguments return the same results with the
\* same scores in the same order and neither raises, whether the second call
\* is served from the cache or recomputed after the entry expired.
C3_RepeatedSearchSameResults ==
    ret.op = "search" /\ prev.op = "search" /\ ret.args = prev.args =>
        /\ ~ret.raised
        /\ ~prev.raised
        /\ ret.results = prev.results

\* A call recomputed after the entry expired, following a call with the same
\* arguments that was served a non-empty list from the cache.
C3_Witness ==
    /\ ret.op = "search"
    /\ prev.op = "search"
    /\ ret.args = prev.args
    /\ prev.from_cache
    /\ ~ret.from_cache
    /\ Len(ret.results) = 2

\* C4: neither SearchCache.get nor _get_cached_result returns an entry whose
\* age, the time of the lookup minus the time of the put that stored it, is
\* greater than or equal to the TTL.
C4_NoEntryReturnedAfterTTL ==
    /\ ret.op = "get" /\ ret.val # None =>
           ret.stored # None /\ ret.at - ret.stored[1].at < TTL
    /\ ret.op = "eget" /\ ret.val # None =>
           ret.stored # None /\ ret.at - ret.stored[1] < TTL

\* A get of a stored entry whose TTL has elapsed.
C4_Witness ==
    /\ ret.op = "get"
    /\ ret.stored # None
    /\ ret.at - ret.stored[1].at >= TTL
    /\ ret.val = None

\* len(self.cache), the cache_size of SearchCache.get_stats
CacheSizeStat == Cardinality(DOMAIN cache)

\* C5: with max_size >= 1 the number of stored entries never exceeds max_size,
\* and putting max_size + 1 distinct keys into an empty cache evicts exactly
\* one entry and leaves max_size entries.
C5_SizeNeverExceedsMaxSize ==
    /\ CacheSizeStat <= MaxSize
    /\ Len(access_times) <= MaxSize
    /\ putRun.ok /\ Len(putRun.keys) = MaxSize + 1 =>
           putRun.evictions = 1 /\ CacheSizeStat = MaxSize

\* max_size + 1 distinct keys were put into an empty cache.
C5_Witness == putRun.ok /\ Len(putRun.keys) = MaxSize + 1

\* C6: when put evicts, the entry removed is one whose most recent access (its
\* put or its last successful get, by the clock) is the oldest of all entries;
\* after max_size + 1 puts of distinct keys into an empty cache with no get in
\* between, the evicted key is the first one inserted.
C6_EvictsLeastRecentlyAccessed ==
    /\ ret.op = "put" /\ ret.evicted # None =>
           /\ ret.evicted[1] \in DOMAIN ret.before
           /\ \A k \in DOMAIN ret.before :
                  ret.before[ret.evicted[1]] <= ret.before[k]
    /\ ret.op = "put" /\ putRun.ok /\ Len(putRun.keys) = MaxSize + 1 =>
           ret.evicted = Some(putRun.keys[1])

\* A put that evicts an entry while an entry accessed later stays.
C6_Witness ==
    /\ ret.op = "put"
    /\ ret.evicted # None
    /\ \E k \in DOMAIN ret.before : ret.before[k] > ret.before[ret.evicted[1]]

\* C7: get returns None for a key with no stored entry (never put), and a get
\* made after a put of the key and before the TTL elapses, with no eviction of
\* the key and no clear in between, returns exactly the results stored and the
\* cache counts the entry in its size.
C7_GetAfterPutReturnsStored ==
    ret.op = "get" =>
        /\ ret.stored = None => ret.val = None
        /\ ret.stored # None /\ ret.at - ret.stored[1].at < TTL =>
               /\ ret.val = Some(ret.stored[1].data)
               /\ ret.key \in DOMAIN cache
               /\ CacheSizeStat = Cardinality(DOMAIN lastPut)
               /\ CacheSizeStat >= 1

\* A get that returned the second result list put under a key.
C7_Witness ==
    /\ ret.op = "get"
    /\ ret.stored # None
    /\ ret.val = Some(<<>>)
    /\ CacheSizeStat = 2

FactorNames(r) == {f[1] : f \in r.relevance_factors}

Min(a, b) == IF a < b THEN a ELSE b

\* C8: if exactly one of the two branches fails, search raises no exception and
\* returns the results of the other branch.  With a failing encoder the results
\* are exactly those of the keyword branch, each tagged as a keyword result and
\* none with a relevance factor named embedding_similarity; with a failing
\* keyword branch every result is the first vector entry of its file, boosted,
\* and as many files of the vector branch are returned as top_k allows.
C8_OneBranchFailsOtherServes ==
    ret.op = "search" =>
        LET query == ret.args[1]
            top_k == ret.args[2]
            filters == ret.args[3]
            K == KeywordSearchSync(query, top_k, filters)
            V == FaissSearchSync(query, top_k, filters)
            r == ret.results
        IN  /\ env.encFails /\ ~env.kwFails =>
                   /\ ~ret.raised
                   /\ r = K
                   /\ \A i \in 1..Len(r) :
                          /\ r[i].search_type = "keyword"
                          /\ "embedding_similarity" \notin FactorNames(r[i])
            /\ env.kwFails /\ env.faissLoaded /\ ~env.encFails =>
                   /\ ~ret.raised
                   /\ Len(r) = Min(top_k, Cardinality(PathsOf(V)))
                   /\ Cardinality(PathsOf(r)) = Len(r)
                   /\ \A i \in 1..Len(r) :
                          /\ r[i].search_type = "faiss"
                          /\ r[i] = [FirstFor(V, r[i].file_path) EXCEPT
                                        !.score = 5 * FirstFor(V, r[i].file_path).score]

\* A search computed with a failing encoder and a loaded index that returned
\* two keyword results.
C8_Witness ==
    /\ ret.op = "search"
    /\ ~ret.from_cache
    /\ env.encFails
    /\ env.faissLoaded
    /\ ~env.kwFails
    /\ ret.dispatched = {"keyword", "faiss"}
    /\ Len(ret.results) = 2

\* C9: if both the keyword branch and the vector branch fail for a request,
\* search returns an error to the caller instead of a result list.
C9_BothBranchesFailReturnsError ==
    ret.op = "search" /\ env.kwFails /\ env.faissLoaded /\ env.encFails =>
        ret.raised

\* C10: search with the empty query string returns an empty result list and no
\* error, and starts neither the keyword branch nor the vector branch.
C10_EmptyQueryNoDispatch ==
    ret.op = "search" /\ ret.args[1] = S_empty =>
        /\ ~ret.raised
        /\ ret.results = <<>>
        /\ ret.dispatched = {}

\* C17: whenever the result cache holds a fresh entry for the key of a search
\* call, whatever list it stores (the empty list included), the call returns
\* that list and starts neither branch.
C17_FreshEntryServedWithoutDispatch ==
    [][ /\ ret'.op = "search"
        /\ search_analytics' # search_analytics
        /\ GetCachedResult(search_cache, ret'.key, now) # None
        => /\ ret'.from_cache
           /\ ret'.dispatched = {}
           /\ ret'.results = GetCachedResult(search_cache, ret'.key, now)[1] ]_vars

\* C18: after any sequence of searches the number of entries of search_cache
\* never exceeds the configured cache_size.
C18_EngineCacheWithinCacheSize == Len(search_cache) <= CacheSizeCfg

\* C19: a lookup of an entry whose TTL has elapsed behaves as a miss and
\* removes the entry from the cache, so that it no longer counts in the size;
\* for SearchCache.get and for _get_cached_result.
C19_ExpiredLookupRemovesEntry ==
    /\ ret.op = "get" /\ ret.stored # None /\ ret.at - ret.stored[1].at >= TTL =>
           /\ ret.val = None
           /\ ret.key \notin DOMAIN cache
           /\ ret.key \notin DictKeys(access_times)
    /\ ret.op = "eget" /\ ret.stored # None /\ ret.at - ret.stored[1] >= TTL =>
           /\ ret.val = None
           /\ ret.key \notin DictKeys(search_cache)

\* C11: every result returned by search(query, top_k, filters) with a non-empty
\* filter map satisfies every constraint of the map.
C11_ResultsSatisfyFilters ==
    ret.op = "search" /\ ret.args[3] # None /\ ret.args[3][1] # {} =>
        \A i \in 1..Len(ret.results) : MatchFilters(ret.results[i], ret.args[3][1])

\* The chunks of the keyword index that match the query: those with a
\* positive score.
MatchingChunks(query) ==
    { c \in Chunks :
        \E i \in 1..Len(DocumentCorpus) :
            /\ \E j \in 1..Len(DocumentCorpus[i].val) : DocumentCorpus[i].val[j] = c
            /\ CalculateAdvancedScore(TokenizeAdvanced(Lower(query)), c,
                                      DocumentCorpus[i].key) > 0 }

\* The files of the keyword index with a chunk that matches the query.
MatchingFiles(query) ==
    { DocumentCorpus[i].key : i \in
        { i \in 1..Len(DocumentCorpus) :
            \E j \in 1..Len(DocumentCorpus[i].val) :
                DocumentCorpus[i].val[j] \in MatchingChunks(query) } }

AllReturned == \A t \in Threads : pc[t] = "done"

\* C12: every search request eventually returns even if one branch never
\* completes.
C12_EveryRequestEventuallyReturns == <>AllReturned

\* C14: two concurrent search calls for the same uncached query both complete,
\* each returns what a single sequential search of the query returns, and
\* afterwards search_cache holds exactly one well-formed entry for the key,
\* under every interleaving.
C14_ConcurrentSearchesAgree ==
    /\ <>AllReturned
    /\ [](AllReturned =>
            \A t \in Threads :
                LET a == locals[t].args
                    cache_key == GetCacheKey(a[1], a[2], a[3])
                    sequential == ParallelSearch(a[1], a[2], a[3])
                IN  /\ ~locals[t].raised
                    /\ ~sequential.raised
                    /\ locals[t].results = Some(sequential.value)
                    /\ Cardinality({i \in 1..Len(search_cache) :
                                        search_cache[i].key = cache_key}) = 1
                    /\ DictGet(search_cache, cache_key).results = sequential.value
                    /\ DictGet(search_cache, cache_key).timestamp \in 0..now)

\* Both calls have returned after each missed the cache and computed two
\* results of its own.
C14_Witness ==
    /\ AllReturned
    /\ \A t \in Threads :
           /\ ~locals[t].from_cache
           /\ locals[t].results # None
           /\ Len(locals[t].results[1]) = 2
    /\ search_analytics.total_searches = 2
    /\ Len(search_cache) = 1

\* The chunk ids whose term_frequencies map contains the term.
ChunksWithTerm(term) ==
    {c \in DOMAIN term_frequencies : term \in DOMAIN term_frequencies[c]}

\* C20: after _build_keyword_index has processed any sequence of chunks
\* (repeated chunk ids included), document_frequencies[t] equals for every
\* term t the number of distinct chunk ids whose term_frequencies map contains t.
C20_DocumentFrequencyCountsChunks ==
    /\ \A c \in DOMAIN term_frequencies :
           DOMAIN term_frequencies[c] \subseteq DOMAIN document_frequencies
    /\ \A term \in DOMAIN document_frequencies :
           document_frequencies[term] = Cardinality(ChunksWithTerm(term))

\* The results search_optimized computes from snapshot snap for the call.
ServedFrom(snap, args) == ProcessResults(snap, args[2], args[3])

\* C15: when the reload of the index, metadata or model fails while a snapshot
\* loaded before exists, the search returns the results of that snapshot.
C15_ReloadFailureServedStale ==
    /\ ret.op = "optimized_search"
    /\ ret.reload = "failed"
    /\ ret.before.index # None /\ ret.before.metadata # None /\ ret.before.model # None
    => ret.results = ServedFrom(ret.before, ret.args)

\* C16: with a limit of N requests per window, of the calls one address makes
\* inside one window the first N are allowed and every later one is denied.
C16_FirstNAllowedRestDenied ==
    \A ip \in IpAddresses : \A i \in 1..Len(rate_log[ip]) :
        rate_log[ip][i].at - rate_log[ip][1].at < Window =>
            (rate_log[ip][i].allowed <=> i <= TestCount)

\* C26: a put for a key that is already in the cache evicts nothing and leaves
\* every other entry in place, also when the cache is at max_size.
C26_UpdateNeverEvicts ==
    ret.op = "put" /\ ret.key \in DOMAIN ret.before =>
        /\ ret.evicted \in {None, Some(ret.key)}
        /\ DOMAIN ret.before \subseteq DOMAIN cache

\* The cache_hit_rate of get_search_analytics, (cache_hits / max(1,
\* total_searches)) * 100, as the fraction num / den.
CacheHitRate ==
    [num |-> search_analytics.cache_hits * 100,
     den |-> IF search_analytics.total_searches >= 1
             THEN search_analytics.total_searches ELSE 1]

\* C27: the cache_hit_rate reported by get_search_analytics lies between 0 and
\* 100 percent: the counted cache hits never exceed the counted total searches.
C27_HitRateWithinPercent ==
    /\ 0 <= CacheHitRate.num
    /\ CacheHitRate.num <= 100 * CacheHitRate.den
    /\ search_analytics.cache_hits <= search_analytics.total_searches

\* A call that reached load_index_and_model without force_reload less than
\* ReloadInterval seconds after the load that succeeded last.
UnforcedCallAfterLoad ==
    /\ ret.op \in {"load", "optimized_search"}
    /\ ~ret.force
    /\ ret.op = "optimized_search" => ~ret.hit
    /\ ret.loaded_before # None
    /\ ret.at - ret.loaded_before[1] < ReloadInterval

\* C21: after a load that succeeded, a call of load_index_and_model without
\* force_reload made less than 300 seconds after it leaves index, metadata and
\* model untouched; a reload is made only when forced, when a handle is
\* missing or when the 300 seconds have passed.
C21_FreshLoadIsReused ==
    /\ UnforcedCallAfterLoad => ret.reload = "none" /\ Snapshot = ret.before
    /\ ret.op \in {"load", "optimized_search"} /\ ret.reload # "none" =>
           \/ ret.force
           \/ ret.before.index = None \/ ret.before.model = None
           \/ ret.at - ret.llt >= ReloadInterval

\* An unforced call inside the 300 seconds while the files on disk are those of
\* another build than the one loaded.
C21_Witness ==
    /\ UnforcedCallAfterLoad
    /\ disk.index.ok /\ disk.meta.ok /\ disk.model_ok
    /\ Some(disk.index.n) # index

InFlight == {t \in Threads : pc[t] \notin {"enter", "done"}}

\* No call is between taking its permit and counting itself in, or between
\* counting itself out and leaving.
CounterSettled ==
    \A t \in Threads : pc[t] \notin {"inc_read", "inc_write", "dec_write", "release"}

\* C24: under every interleaving concurrent_searches equals the number of
\* search_async calls that have entered and not yet left, never exceeds
\* max_concurrent_searches, and is 0 whenever no search is in flight.
C24_CounterCountsSearchesInFlight ==
    /\ CounterSettled => concurrent_searches = Cardinality(InFlight)
    /\ concurrent_searches <= max_concurrent
    /\ InFlight = {} => concurrent_searches = 0

RECURSIVE CoveredTokens(_, _)
CoveredTokens(list, seen) ==
    IF list = <<>> THEN <<>>
    ELSE LET words == Split(Head(list).text)
             from == IF "start_token" \in DOMAIN Head(list).meta
                     THEN Head(list).meta.start_token ELSE 0
             fresh == PySlice(words, seen - from, Len(words))
         IN  fresh \o CoveredTokens(Tail(list), from + Len(words))

\* C30: chunk_text terminates for every text, chunk_size >= 1 and overlap >= 0
\* (its loop starts every pass further in the text, so it makes no more passes
\* than the text has tokens), every chunk it returns holds at most chunk_size
\* tokens, and the chunks together cover every token of the text in order.
C30_ChunkTextTerminatesAndCovers ==
    /\ Len(chunker.chunks) <= Len(chunker.tokens)
    /\ chunker.pc = "done" =>
           /\ \A i \in 1..Len(chunker.returned[1]) :
                  Len(Split(chunker.returned[1][i].text)) <= chunker.chunk_size
           /\ CoveredTokens(chunker.returned[1], 0) = Split(chunker.text)

\* C25: when several threads call load_index_and_model at the same time after
\* the freshness window has elapsed, the handles are reloaded once: a thread
\* that waited on the load lock does not reload what another thread has just
\* loaded.  No thread of an unforced call is past the lock while the load it
\* waited for already passes the freshness test of its call.
C25_WaiterReusesFinishedLoad ==
    \A t \in Threads :
        workers[t].pc = "load_index" /\ ~workers[t].force
        => ~(RecentlyLoaded(last_load_time, workers[t].current_time)
             /\ index # None /\ model # None)

\* C22: a search that runs beside a reload never combines handles of different
\* loads: the index it searched and the metadata it built its results from
\* were stored by the same load.
C22_SearchUsesHandlesOfOneLoad ==
    \A t \in Threads :
        workers[t].op = "search" /\ workers[t].pc = "done" /\ workers[t].meta_load # 0
        => workers[t].index_load = workers[t].meta_load

\* C29: under every interleaving of get_connection and close_pool, no
\* connection is held by two callers, none is in the pool while a caller holds
\* it, the pool holds at most pool_size connections, and no closed connection
\* is in the pool or held by a caller.
C29_PoolConnectionsExclusiveAndOpen ==
    /\ \A t1, t2 \in Callers :
           t1 # t2 /\ holders[t1] # None => holders[t1] # holders[t2]
    /\ \A t \in Callers, i \in 1..Len(connection_pool) :
           holders[t] # Some(connection_pool[i])
    /\ Len(connection_pool) <= pool_size
    /\ \A i \in 1..Len(connection_pool) : ~connections[connection_pool[i]].closed
    /\ \A t \in Callers : holders[t] # None => ~connections[holders[t][1]].closed


====
